---- MODULE Spec2Model ----
(***************************************************************************)
(* Raster tools of the geospatial-analysis MCP servers:                    *)
(*   raster/spatial_analysis.py   focal statistics, smoothing, edges       *)
(*   raster/spectral_indices.py   NDVI, EVI, SAVI, NDWI, MNDWI             *)
(*   raster/raster_metadata.py    band statistics, histogram, unique       *)
(*                                                                         *)
(* Numbers.  A float is a pair <<n, d>>: the rational n/d in lowest terms  *)
(* with d > 0; <<0,0>> is NaN, <<1,0>> is +inf and <<-1,0>> is -inf, so    *)
(* that IEEE division by zero and NaN propagation are computed, not        *)
(* assumed.  Band values are integers small enough to be exact in float32  *)
(* (|v| < 2^24), so astype("float32") is the embedding v |-> <<v,1>>.      *)
(* A standard deviation is irrational in general: wherever the code takes  *)
(* a square root (np.nanstd, np.std, np.ma.std) the model keeps the value  *)
(* under the root, the variance; min, max, sign and zero-ness of the std   *)
(* are those of the variance.                                              *)
(***************************************************************************)
EXTENDS Integers, Sequences, FiniteSets, TLC

(* ------------------------------------------------------------------ *)
(* Bounds of the model                                                 *)
(* ------------------------------------------------------------------ *)
\* cells (rows * cols) of a band in SpecBand and SpecNorm
MaxCells == 4
\* band values are 0..MaxVal in SpecBand and SpecNorm
MaxVal == 2
\* band values are -1..MaxDN in SpecIndex
MaxDN == 2
\* bands of a file in Spec
MaxBands == 2

(* ------------------------------------------------------------------ *)
(* Floats                                                              *)
(* ------------------------------------------------------------------ *)
NaN == <<0, 0>>
PosInf == <<1, 0>>
NegInf == <<-1, 0>>
\* Python's None (an absent nodata value, a null statistic)
None == <<>>

\* the sequence <<F(1), ..., F(n)>>
Tab(n, F(_)) == [i \in 1..n |-> F(i)] \o <<>>

Abs(i) == IF i < 0 THEN -i ELSE i
Sgn(i) == IF i < 0 THEN -1 ELSE IF i > 0 THEN 1 ELSE 0

RECURSIVE Gcd(_, _)
Gcd(a, b) == IF b = 0 THEN a ELSE Gcd(b, a % b)

\* the float n/d for integers n, d: x/0 is an infinity, 0/0 is NaN
Rat(n, d) ==
  IF d = 0 THEN <<Sgn(n), 0>>
  ELSE LET g == Gcd(Abs(n), Abs(d))
           s == Sgn(d)
       IN <<(s * n) \div g, (s * d) \div g>>

Num(i) == <<i, 1>>
IsNaN(x) == x = NaN
IsInf(x) == x = PosInf \/ x = NegInf
IsFinite(x) == x # None /\ x[2] > 0

\* the arithmetic reduces before it multiplies, to keep the integers small
FAdd(x, y) ==
  IF IsNaN(x) \/ IsNaN(y) THEN NaN
  ELSE IF IsInf(x) /\ IsInf(y) THEN (IF x = y THEN x ELSE NaN)
  ELSE IF IsInf(x) THEN x
  ELSE IF IsInf(y) THEN y
  ELSE LET g == Gcd(x[2], y[2])
       IN Rat(x[1] * (y[2] \div g) + y[1] * (x[2] \div g), (x[2] \div g) * y[2])

FSub(x, y) == FAdd(x, <<-y[1], y[2]>>)

FMul(x, y) ==
  IF IsNaN(x) \/ IsNaN(y) THEN NaN
  ELSE IF x[2] = 0 \/ y[2] = 0 THEN <<Sgn(x[1]) * Sgn(y[1]), 0>>
  ELSE LET g1 == Gcd(Abs(x[1]), y[2])
           g2 == Gcd(Abs(y[1]), x[2])
       IN Rat((x[1] \div g1) * (y[1] \div g2), (x[2] \div g2) * (y[2] \div g1))

\* x / y: a finite x over zero is an infinity of x's sign, 0/0 is NaN
FDiv(x, y) ==
  IF IsNaN(x) \/ IsNaN(y) THEN NaN
  ELSE IF IsInf(x) /\ IsInf(y) THEN NaN
  ELSE IF IsInf(x) THEN <<x[1] * (IF y[1] < 0 THEN -1 ELSE 1), 0>>
  ELSE IF IsInf(y) THEN Num(0)
  ELSE IF y[1] = 0 THEN <<Sgn(x[1]), 0>>
  ELSE FMul(x, <<Sgn(y[1]) * y[2], Abs(y[1])>>)

\* comparisons are false when an operand is NaN
FLt(x, y) ==
  /\ ~IsNaN(x) /\ ~IsNaN(y)
  /\ IF IsInf(x) \/ IsInf(y)
       THEN x # y /\ (x = NegInf \/ y = PosInf)
       ELSE LET g == Gcd(x[2], y[2])
            IN x[1] * (y[2] \div g) < y[1] * (x[2] \div g)
FLe(x, y) == ~IsNaN(x) /\ ~IsNaN(y) /\ ~FLt(y, x)
\* x == y of IEEE floats: NaN equals nothing, itself included
FEq(x, y) == ~IsNaN(x) /\ ~IsNaN(y) /\ x = y

(* ------------------------------------------------------------------ *)
(* Sequences of floats: the nan-aware reducers of numpy                *)
(* ------------------------------------------------------------------ *)
RECURSIVE FSum(_)
FSum(s) == IF s = <<>> THEN Num(0) ELSE FAdd(Head(s), FSum(Tail(s)))

RECURSIVE FMinSeq(_)
FMinSeq(s) ==
  IF Len(s) = 1 THEN s[1]
  ELSE LET m == FMinSeq(Tail(s)) IN IF FLt(m, s[1]) THEN m ELSE s[1]

RECURSIVE FMaxSeq(_)
FMaxSeq(s) ==
  IF Len(s) = 1 THEN s[1]
  ELSE LET m == FMaxSeq(Tail(s)) IN IF FLt(s[1], m) THEN m ELSE s[1]

NotNaN(x) == ~IsNaN(x)
Valid(s) == SelectSeq(s, NotNaN)

Mean(s) == FDiv(FSum(s), Num(Len(s)))
\* the variance (ddof = 0): the square of np.std
Variance(s) ==
  LET m == Mean(s)
  IN Mean(Tab(Len(s), LAMBDA i : FMul(FSub(s[i], m), FSub(s[i], m))))

\* a variant of NanMean that divides by the size of the window, the missing
\* cells counting as 0
ZeroFilledMean(s) ==
  IF Valid(s) = <<>> THEN NaN ELSE FDiv(FSum(Valid(s)), Num(Len(s)))
\* np.nanmean, np.nanmin, np.nanmax, np.nanstd: NaN when every element is NaN
NanMean(s) == IF Valid(s) = <<>> THEN NaN ELSE Mean(Valid(s))
NanMin(s) == IF Valid(s) = <<>> THEN NaN ELSE FMinSeq(Valid(s))
NanMax(s) == IF Valid(s) = <<>> THEN NaN ELSE FMaxSeq(Valid(s))
NanStd(s) == IF Valid(s) = <<>> THEN NaN ELSE Variance(Valid(s))

\* np.sort of a sequence without NaN (insertion sort)
RECURSIVE InsertSorted(_, _)
InsertSorted(x, s) ==
  IF s = <<>> THEN <<x>>
  ELSE IF FLt(s[1], x) THEN <<s[1]>> \o InsertSorted(x, Tail(s))
  ELSE <<x>> \o s

RECURSIVE Sorted(_)
Sorted(s) == IF s = <<>> THEN <<>> ELSE InsertSorted(Head(s), Sorted(Tail(s)))

\* np.median of a non-empty sequence: the middle element, or the mean of the
\* two middle elements
Median(s) ==
  LET t == Sorted(s)
      n == Len(t)
  IN IF n % 2 = 1 THEN t[(n + 1) \div 2]
     ELSE FDiv(FAdd(t[n \div 2], t[(n \div 2) + 1]), Num(2))
NanMedian(s) == IF Valid(s) = <<>> THEN NaN ELSE Median(Valid(s))

\* np.percentile(s, q), linear interpolation between the closest ranks
Percentile(s, q) ==
  LET t == Sorted(s)
      n == Len(t)
      k == ((n - 1) * q) \div 100
      rem == ((n - 1) * q) % 100
  IN IF rem = 0 THEN t[k + 1]
     ELSE FAdd(t[k + 1], FMul(Rat(rem, 100), FSub(t[k + 2], t[k + 1])))

(* ------------------------------------------------------------------ *)
(* Grids: a grid is a sequence of rows, a row a sequence of floats     *)
(* ------------------------------------------------------------------ *)
Rows(g) == Len(g)
Cols(g) == IF Len(g) = 0 THEN 0 ELSE Len(g[1])
Size(g) == Rows(g) * Cols(g)
\* ndarray.ravel(): the cells in row-major order
Flatten(g) ==
  Tab(Size(g), LAMBDA i : g[((i - 1) \div Cols(g)) + 1][((i - 1) % Cols(g)) + 1])
\* np.full_like(g, np.nan)
FullNaN(g) == Tab(Rows(g), LAMBDA r : Tab(Cols(g), LAMBDA c : NaN))
CountValid(g) == Len(Valid(Flatten(g)))

(* ------------------------------------------------------------------ *)
(* scipy.ndimage: boundary mode 'reflect' (d c b a | a b c d | d c b a) *)
(* ------------------------------------------------------------------ *)
\* a variant of Reflect that wraps around (d c b a | a b c d | a b c d)
WrapAround(i, n) == ((i - 1) % n) + 1
\* a variant of Reflect that does not repeat the border cell (scipy's mode
\* 'mirror': d c b | a b c d | c b a)
MirrorMode(i, n) ==
  IF n = 1 THEN 1
  ELSE LET m == (i - 1) % (2 * n - 2)
       IN IF m < n THEN m + 1 ELSE 2 * n - 1 - m
\* the index in 1..n that position i (any integer) of the extended line reads
Reflect(i, n) ==
  LET m == (i - 1) % (2 * n)
  IN IF m < n THEN m + 1 ELSE 2 * n - m

\* a variant of Window whose centre lies one cell up and one cell left of
\* (r, c), as with origin = 1
ShiftedWindow(g, r, c, size) ==
  Tab((size * size), LAMBDA i :
     g[Reflect(r + ((i - 1) \div size) - (size \div 2) - 1, Rows(g))]
      [Reflect(c + ((i - 1) % size) - (size \div 2) - 1, Cols(g))])
\* a variant of Window that reads 0 outside the grid
ZeroPadWindow(g, r, c, size) ==
  Tab((size * size), LAMBDA i :
     LET rr == r + ((i - 1) \div size) - (size \div 2)
         cc == c + ((i - 1) % size) - (size \div 2)
     IN IF rr \in 1..Rows(g) /\ cc \in 1..Cols(g) THEN g[rr][cc] ELSE Num(0))
\* the size x size neighbourhood of (r, c), row-major; the window's centre is
\* element size \div 2 of each axis (origin 0)
Window(g, r, c, size) ==
  Tab((size * size), LAMBDA i :
     g[Reflect(r + ((i - 1) \div size) - (size \div 2), Rows(g))]
      [Reflect(c + ((i - 1) % size) - (size \div 2), Cols(g))])

\* generic_filter(g, F, footprint = ones((size, size)), mode = 'reflect')
GenericFilter(g, F(_), size) ==
  Tab(Rows(g), LAMBDA r : Tab(Cols(g), LAMBDA c : F(Window(g, r, c, size))))

\* gaussian_filter: the kernel radius int(truncate * sigma + 0.5), truncate = 4.0
GaussTruncate == 4
GaussRadius(sigma) ==
  (2 * GaussTruncate * sigma[1] + sigma[2]) \div (2 * sigma[2])

RECURSIVE Choose(_, _)
Choose(n, k) == IF k = 0 \/ k = n THEN 1 ELSE Choose(n - 1, k - 1) + Choose(n - 1, k)

\* The library's kernel weights exp(-d^2/(2 sigma^2)) at distance d are
\* positive, symmetric and decreasing in |d|; the binomial weights
\* Choose(2 radius, radius + d) that stand for them here are too.
\* WeightedSum: the sum over d in -radius..upto of w(d) * line[Reflect(i + d)]
RECURSIVE WeightedSum(_, _, _, _)
WeightedSum(line, i, radius, upto) ==
  IF upto < -radius THEN Num(0)
  ELSE FAdd(FMul(Num(Choose(2 * radius, radius + upto)), line[Reflect(i + upto, Len(line))]),
            WeightedSum(line, i, radius, upto - 1))

RECURSIVE WeightTotal(_, _)
WeightTotal(radius, upto) ==
  IF upto < -radius THEN 0
  ELSE Choose(2 * radius, radius + upto) + WeightTotal(radius, upto - 1)

\* correlate1d of one line with the normalised kernel
Gauss1D(line, radius) ==
  Tab(Len(line), LAMBDA i :
     FDiv(WeightedSum(line, i, radius, radius), Num(WeightTotal(radius, radius))))

Transpose(g) == Tab(Cols(g), LAMBDA c : Tab(Rows(g), LAMBDA r : g[r][c]))

\* gaussian_filter(g, sigma): the 1-d filter along axis 0, then along axis 1
GaussianFilter(g, sigma) ==
  LET radius == GaussRadius(sigma)
      axis0 == Transpose(Tab(Cols(g), LAMBDA c : Gauss1D(Transpose(g)[c], radius)))
  IN Tab(Rows(g), LAMBDA r : Gauss1D(axis0[r], radius))

\* median_filter(g, size): the element of rank size*size \div 2 of each window
RankOf(w) == Sorted(w)[(Len(w) \div 2) + 1]
MedianFilter(g, size) == GenericFilter(g, RankOf, size)

(* ------------------------------------------------------------------ *)
(* The raster file (rasterio's DatasetReader)                          *)
(* ------------------------------------------------------------------ *)
\* src: the dataset stored at ThePath: [count, bands, nodatavals], bands[b] a
\*      grid of integers, nodatavals[b] None or a float
\* call: the last request; out: what it did and gave
\* connections: the module-level dictionary _connections of the PostgreSQL
\*      server: connections[id] is <<>> for an id that is no key and
\*      <<[closed, txn]>> for a key, closed the state of the psycopg2 connection
\*      and txn the data-changing statements of its open transaction
\* db: the data-changing statements the database has committed
VARIABLES src, call, out, connections, db
vars == <<src, call, out, connections, db>>

ThePath == "scene.tif"
Paths == {ThePath, "missing.tif"}

\* a request that raised: the exception, whether rio.open had been called, and
\* the band indices handed to src.read before the exception; stderr holds the
\* lines the request printed to sys.stderr
Raised(e, opened, reads) ==
  [err |-> e, opened |-> opened, reads |-> reads,
   norm |-> <<>>, grids |-> <<>>, res |-> <<>>, stderr |-> <<>>]
\* a request that returned res; norm are the normalised band grids and grids the
\* grids the statistics were taken from (neither is part of the mapping returned)
Returned(reads, norm, grids, res) ==
  [err |-> "", opened |-> TRUE, reads |-> reads,
   norm |-> norm, grids |-> grids, res |-> res, stderr |-> <<>>]

FileNotFound == "FileNotFoundError"
BadWindow == "ValueError: Window size must be a positive odd integer."
BadSigma == "ValueError: Sigma must be positive."
BadSize == "ValueError: Filter size must be positive."
BadMethod == "ValueError: Method must be 'sobel' or 'gradient'."
BadBand == "ValueError: Invalid band number."
BadBands == "ValueError: Invalid band indices."
\* what src.read raises for an index that is no band of the dataset
BandIndexError == "IndexError: band index out of range"

\* what rasterio.warp.transform_bounds raises for a coordinate system that has
\* no transformation to WGS84
CannotTransform == "CRSError: no transformation to EPSG:4326"

\* transform_bounds(src.crs, CRS.from_epsg(4326), *src.bounds): bounds in
\* EPSG:4326 stay as they are, bounds in EPSG:3857 are metres and become degrees
\* (111320 m to the degree, as on the equator), and an engineering coordinate
\* system (LOCAL_CS) makes the call raise
transform_bounds(crs, bounds) ==
  IF crs = <<"LOCAL_CS">> THEN [raised |-> CannotTransform, value |-> None]
  ELSE IF crs = <<"EPSG:4326">> THEN [raised |-> "", value |-> bounds]
  ELSE [raised |-> "", value |-> Tab(4, LAMBDA i : FDiv(bounds[i], Num(111320)))]

\* a variant of get_wgs84_bounds without the try
UncaughtTransform ==
  IF src.crs # None
    THEN [raised |-> transform_bounds(src.crs, src.bounds).raised,
          value |-> transform_bounds(src.crs, src.bounds).value, stderr |-> <<>>]
    ELSE [raised |-> "", value |-> src.bounds, stderr |-> <<>>]

\* get_wgs84_bounds(src): the list returned, the lines printed to sys.stderr and
\* the exception that leaves the function (none: the except clause catches
\* every Exception of transform_bounds)
get_wgs84_bounds ==
  IF src.crs # None
    THEN IF transform_bounds(src.crs, src.bounds).raised = ""
           THEN [raised |-> "", value |-> transform_bounds(src.crs, src.bounds).value,
                 stderr |-> <<>>]
           ELSE [raised |-> "", value |-> src.bounds,
                 stderr |-> <<<<"Warning: Could not transform bounds to WGS84: ",
                              transform_bounds(src.crs, src.bounds).raised>>>>]
    ELSE [raised |-> "", value |-> src.bounds, stderr |-> <<>>]

\* a request that returned the mapping res with "bounds_wgs84":
\* get_wgs84_bounds(src), still inside the with block of rio.open
Reported(reads, norm, grids, res) ==
  IF get_wgs84_bounds.raised # ""
    THEN [Raised(get_wgs84_bounds.raised, TRUE, reads)
            EXCEPT !.stderr = get_wgs84_bounds.stderr]
    ELSE [Returned(reads, norm, grids,
                   [k \in (DOMAIN res) \cup {"bounds_wgs84"} |->
                      IF k = "bounds_wgs84" THEN get_wgs84_bounds.value ELSE res[k]])
            EXCEPT !.stderr = get_wgs84_bounds.stderr]

\* validate_raster_path: the path exists
PathExists(path) == path = ThePath

\* a variant of ValidBand that accepts 0
BandOffByOne(band_number) == 0 <= band_number /\ band_number <= src.count
\* 1 <= band_number <= src.count
ValidBand(band_number) == 1 <= band_number /\ band_number <= src.count

\* a variant of ReadBand that keeps the band of the last request served in a
\* module-level cache and hands it to the next one
CachedRead(band) ==
  LET done == {i \in 1..Len(out) : out[i].reads # <<>>}
      last == CHOOSE i \in done : \A j \in done : j <= i
      raw == IF done = {} THEN src.bands[band] ELSE src.bands[out[last].reads[1]]
  IN Tab(Len(raw), LAMBDA r : Tab(Len(raw[r]), LAMBDA c : Num(raw[r][c])))
\* src.read(band).astype("float32")
ReadBand(band) ==
  LET raw == src.bands[band]
  IN Tab(Len(raw), LAMBDA r : Tab(Len(raw[r]), LAMBDA c : Num(raw[r][c])))

(* ------------------------------------------------------------------ *)
(* raster/spatial_analysis.py                                          *)
(* ------------------------------------------------------------------ *)
\* a variant of MaskSentinel that masks the cells that differ from nodata_val
MaskOtherCells(data, nodata_val) ==
  Tab(Rows(data), LAMBDA r : Tab(Cols(data), LAMBDA c :
     IF FEq(data[r][c], nodata_val) THEN data[r][c] ELSE NaN))
\* data[data == nodata_val] = np.nan
MaskSentinel(data, nodata_val) ==
  Tab(Rows(data), LAMBDA r : Tab(Cols(data), LAMBDA c :
     IF FEq(data[r][c], nodata_val) THEN NaN ELSE data[r][c]))

handle_nodata(data, nodata_val) ==
  IF nodata_val # None /\ ~IsNaN(nodata_val)
    THEN MaskSentinel(data, nodata_val)
    ELSE data

\* np.nanmean and np.nanstd of a whole grid are kept as the sample they are
\* taken over, the non-missing cells in ascending order: both are functions of
\* it, and the mean of a grid of roots is not a rational
SampleOf(f) == Sorted(Valid(f))

calculate_filter_stats(original_data, filtered_data) ==
  LET f == Flatten(filtered_data)
      any == CountValid(filtered_data) > 0
  IN [original_valid_pixels |-> CountValid(original_data),
      filtered_valid_pixels |-> CountValid(filtered_data),
      min |-> IF any THEN NanMin(f) ELSE None,
      max |-> IF any THEN NanMax(f) ELSE None,
      mean |-> IF any THEN SampleOf(f) ELSE None,
      std |-> IF any THEN SampleOf(f) ELSE None]

\* np.nanmean, np.nanmax, np.nanmin, np.nanstd as the filter function
Reduce(reducer, w) ==
  CASE reducer = "mean" -> NanMean(w)
    [] reducer = "max" -> NanMax(w)
    [] reducer = "min" -> NanMin(w)
    [] reducer = "std" -> NanStd(w)

\* the body of focal_mean, focal_max, focal_min and focal_std after the checks
FocalBody(reducer, band_number, window_size) ==
  LET data == handle_nodata(ReadBand(band_number), src.nodatavals[band_number])
      F(w) == Reduce(reducer, w)
      filtered_data == GenericFilter(data, F, window_size)
  IN Reported(<<band_number>>, <<data>>, <<filtered_data>>,
              calculate_filter_stats(data, filtered_data))

\* a focal tool that opens the raster before it looks at window_size
FocalBandFirst(reducer, path, band_number, window_size) ==
  IF ~PathExists(path) THEN Raised(FileNotFound, FALSE, <<>>)
  ELSE IF ~ValidBand(band_number) THEN Raised(BadBand, TRUE, <<>>)
  ELSE IF window_size <= 0 \/ window_size % 2 = 0 THEN Raised(BadWindow, TRUE, <<>>)
  ELSE FocalBody(reducer, band_number, window_size)

FocalStatistic(reducer, path, band_number, window_size) ==
  IF ~PathExists(path) THEN Raised(FileNotFound, FALSE, <<>>)
  ELSE IF window_size <= 0 \/ window_size % 2 = 0 THEN Raised(BadWindow, FALSE, <<>>)
  ELSE IF ~ValidBand(band_number) THEN Raised(BadBand, TRUE, <<>>)
  ELSE IF band_number \notin DOMAIN src.bands THEN Raised(BandIndexError, TRUE, <<band_number>>)
  ELSE FocalBody(reducer, band_number, window_size)

focal_mean(path, band_number, window_size) ==
  FocalStatistic("mean", path, band_number, window_size)
focal_max(path, band_number, window_size) ==
  FocalStatistic("max", path, band_number, window_size)
focal_min(path, band_number, window_size) ==
  FocalStatistic("min", path, band_number, window_size)
focal_std(path, band_number, window_size) ==
  FocalStatistic("std", path, band_number, window_size)

\* temp_data = original_data.copy(); temp_data[np.isnan(temp_data)] = fill
FillMissing(original_data, fill) ==
  Tab(Rows(original_data), LAMBDA r : Tab(Cols(original_data), LAMBDA c :
     IF IsNaN(original_data[r][c]) THEN fill ELSE original_data[r][c]))

\* a variant of RestoreMask that keeps the filtered value of every cell
NoRestore(original_data, filtered_temp) == filtered_temp
\* filtered_data = np.full_like(original_data, np.nan);
\* filtered_data[valid_mask] = filtered_temp[valid_mask]
RestoreMask(original_data, filtered_temp) ==
  Tab(Rows(original_data), LAMBDA r : Tab(Cols(original_data), LAMBDA c :
     IF IsNaN(original_data[r][c]) THEN NaN ELSE filtered_temp[r][c]))

\* the smoothed grid of gaussian_smooth
GaussianSmoothGrid(original_data, sigma) ==
  IF CountValid(original_data) > 0
    THEN RestoreMask(original_data,
           GaussianFilter(FillMissing(original_data, NanMean(Flatten(original_data))),
                          sigma))
    ELSE FullNaN(original_data)

gaussian_smooth(path, band_number, sigma) ==
  IF ~PathExists(path) THEN Raised(FileNotFound, FALSE, <<>>)
  ELSE IF FLe(sigma, Num(0)) THEN Raised(BadSigma, FALSE, <<>>)
  ELSE IF ~ValidBand(band_number) THEN Raised(BadBand, TRUE, <<>>)
  ELSE IF band_number \notin DOMAIN src.bands THEN Raised(BandIndexError, TRUE, <<band_number>>)
  ELSE LET original_data ==
             handle_nodata(ReadBand(band_number), src.nodatavals[band_number])
           filtered_data == GaussianSmoothGrid(original_data, sigma)
       IN Reported(<<band_number>>, <<original_data>>, <<filtered_data>>,
                   calculate_filter_stats(original_data, filtered_data))

\* the filtered grid of median_filter_analysis
MedianSmoothGrid(original_data, size) ==
  IF CountValid(original_data) > 0
    THEN RestoreMask(original_data,
           MedianFilter(FillMissing(original_data, NanMedian(Flatten(original_data))),
                        size))
    ELSE FullNaN(original_data)

median_filter_analysis(path, band_number, size) ==
  IF ~PathExists(path) THEN Raised(FileNotFound, FALSE, <<>>)
  ELSE IF size <= 0 THEN Raised(BadSize, FALSE, <<>>)
  ELSE IF ~ValidBand(band_number) THEN Raised(BadBand, TRUE, <<>>)
  ELSE IF band_number \notin DOMAIN src.bands THEN Raised(BandIndexError, TRUE, <<band_number>>)
  ELSE LET original_data ==
             handle_nodata(ReadBand(band_number), src.nodatavals[band_number])
           filtered_data == MedianSmoothGrid(original_data, size)
       IN Reported(<<band_number>>, <<original_data>>, <<filtered_data>>,
                   calculate_filter_stats(original_data, filtered_data))

\* the two 3x3 kernels of the sobel method, row-major
SobelX == <<-1, 0, 1, -2, 0, 2, -1, 0, 1>>
SobelY == <<-1, -2, -1, 0, 0, 0, 1, 2, 1>>
\* np.sum(x.reshape(3, 3) * kernel)
KernelSum(w, kernel) == FSum(Tab(Len(w), LAMBDA i : FMul(w[i], Num(kernel[i]))))
SumSquares(x, y) == FAdd(FMul(x, x), FMul(y, y))

\* edge_x**2 + edge_y**2 of the sobel method (the value under np.sqrt)
SobelMagnitude(temp_data) ==
  Tab(Rows(temp_data), LAMBDA r : Tab(Cols(temp_data), LAMBDA c :
     SumSquares(KernelSum(Window(temp_data, r, c, 3), SobelX),
                KernelSum(Window(temp_data, r, c, 3), SobelY))))

\* np.gradient along one line: one-sided differences at the two ends, central
\* differences inside
Gradient1D(line) ==
  Tab(Len(line), LAMBDA i :
     IF i = 1 THEN FSub(line[2], line[1])
     ELSE IF i = Len(line) THEN FSub(line[i], line[i - 1])
     ELSE FDiv(FSub(line[i + 1], line[i - 1]), Num(2)))

\* grad_x**2 + grad_y**2 of the gradient method (the value under np.sqrt)
GradientMagnitude(temp_data) ==
  LET grad_y == Transpose(Tab(Cols(temp_data), LAMBDA c :
                             Gradient1D(Transpose(temp_data)[c])))
      grad_x == Tab(Rows(temp_data), LAMBDA r : Gradient1D(temp_data[r]))
  IN Tab(Rows(temp_data), LAMBDA r : Tab(Cols(temp_data), LAMBDA c :
        SumSquares(grad_x[r][c], grad_y[r][c])))

\* np.gradient needs at least two elements along every axis
GradientTooSmall == "ValueError: Shape of array too small to calculate a numerical gradient"

\* a variant of edge_detection without the test np.any(valid_mask): the
\* substitution and the filter run on a band with no valid cell too
EdgeUnguarded(path, band_number, method) ==
  IF ~PathExists(path) THEN Raised(FileNotFound, FALSE, <<>>)
  ELSE IF method \notin {"sobel", "gradient"} THEN Raised(BadMethod, FALSE, <<>>)
  ELSE IF ~ValidBand(band_number) THEN Raised(BadBand, TRUE, <<>>)
  ELSE IF band_number \notin DOMAIN src.bands THEN Raised(BandIndexError, TRUE, <<band_number>>)
  ELSE LET original_data ==
             handle_nodata(ReadBand(band_number), src.nodatavals[band_number])
           temp_data == FillMissing(original_data, NanMean(Flatten(original_data)))
       IN IF method = "gradient" /\ (Rows(temp_data) < 2 \/ Cols(temp_data) < 2)
            THEN Raised(GradientTooSmall, TRUE, <<band_number>>)
          ELSE LET edge_magnitude == IF method = "sobel"
                                       THEN SobelMagnitude(temp_data)
                                       ELSE GradientMagnitude(temp_data)
                   edge_data == RestoreMask(original_data, edge_magnitude)
               IN Reported(<<band_number>>, <<original_data>>, <<edge_data>>,
                           calculate_filter_stats(original_data, edge_data))

edge_detection(path, band_number, method) ==
  IF ~PathExists(path) THEN Raised(FileNotFound, FALSE, <<>>)
  ELSE IF method \notin {"sobel", "gradient"} THEN Raised(BadMethod, FALSE, <<>>)
  ELSE IF ~ValidBand(band_number) THEN Raised(BadBand, TRUE, <<>>)
  ELSE IF band_number \notin DOMAIN src.bands THEN Raised(BandIndexError, TRUE, <<band_number>>)
  ELSE LET original_data ==
             handle_nodata(ReadBand(band_number), src.nodatavals[band_number])
           temp_data == FillMissing(original_data, NanMean(Flatten(original_data)))
       IN IF CountValid(original_data) = 0
            THEN Reported(<<band_number>>, <<original_data>>, <<FullNaN(original_data)>>,
                          calculate_filter_stats(original_data, FullNaN(original_data)))
          ELSE IF method = "gradient" /\ (Rows(temp_data) < 2 \/ Cols(temp_data) < 2)
            THEN Raised(GradientTooSmall, TRUE, <<band_number>>)
          ELSE LET edge_magnitude == IF method = "sobel"
                                       THEN SobelMagnitude(temp_data)
                                       ELSE GradientMagnitude(temp_data)
                   edge_data == RestoreMask(original_data, edge_magnitude)
               IN Reported(<<band_number>>, <<original_data>>, <<edge_data>>,
                           calculate_filter_stats(original_data, edge_data))

(* ------------------------------------------------------------------ *)
(* raster/spectral_indices.py                                          *)
(* ------------------------------------------------------------------ *)
calculate_index_stats(index_array) ==
  LET valid_data == Valid(Flatten(index_array))
  IN IF valid_data = <<>>
       THEN [min |-> None, max |-> None, mean |-> None, std |-> None,
             valid_pixels |-> 0, total_pixels |-> Size(index_array),
             percentiles |-> None]
       ELSE [min |-> FMinSeq(valid_data), max |-> FMaxSeq(valid_data),
             mean |-> Mean(valid_data), std |-> Variance(valid_data),
             valid_pixels |-> Len(valid_data), total_pixels |-> Size(index_array),
             percentiles |-> <<Percentile(valid_data, 25), Percentile(valid_data, 50),
                               Percentile(valid_data, 75)>>]

\* a variant of NormaliseBand that leaves the band as read
KeepSentinel(band, nodata) == band
\* if nodata is not None: band[band == nodata] = np.nan
NormaliseBand(band, nodata) ==
  IF nodata # None THEN MaskSentinel(band, nodata) ELSE band

\* band = src.read(b).astype("float32"), then the replacement of its sentinel
ReadNormalised(band) == NormaliseBand(ReadBand(band), src.nodatavals[band])

\* a variant of SafeDivide without the test denominator != 0
UnguardedDivide(numerator, denominator) ==
  Tab(Rows(denominator), LAMBDA r : Tab(Cols(denominator), LAMBDA c :
     FDiv(numerator[r][c], denominator[r][c])))
\* index = np.full_like(denominator, np.nan); valid = denominator != 0;
\* index[valid] = numerator[valid] / denominator[valid]
\* (x != 0 is true of a NaN)
SafeDivide(numerator, denominator) ==
  Tab(Rows(denominator), LAMBDA r : Tab(Cols(denominator), LAMBDA c :
     IF ~FEq(denominator[r][c], Num(0))
       THEN FDiv(numerator[r][c], denominator[r][c])
       ELSE NaN))

\* cell-wise arithmetic of two grids, and of a scalar with a grid
GAdd(a, b) == Tab(Rows(a), LAMBDA r : Tab(Cols(a), LAMBDA c : FAdd(a[r][c], b[r][c])))
GSub(a, b) == Tab(Rows(a), LAMBDA r : Tab(Cols(a), LAMBDA c : FSub(a[r][c], b[r][c])))
GScale(k, a) == Tab(Rows(a), LAMBDA r : Tab(Cols(a), LAMBDA c : FMul(k, a[r][c])))
GPlus(a, k) == Tab(Rows(a), LAMBDA r : Tab(Cols(a), LAMBDA c : FAdd(a[r][c], k)))

\* a variant of NormalisedDifference with numerator and denominator swapped
SwappedDifference(a, b) == SafeDivide(GAdd(a, b), GSub(a, b))
\* (a - b) / (a + b): NDVI with a = nir, b = red; NDWI with a = green, b = nir;
\* MNDWI with a = green, b = swir
NormalisedDifference(a, b) == SafeDivide(GSub(a, b), GAdd(a, b))

\* G * (nir - red) / (nir + C1 * red - C2 * blue + L)
EviGrid(red, nir, blue, G, C1, C2, L) ==
  SafeDivide(GScale(G, GSub(nir, red)),
             GPlus(GSub(GAdd(nir, GScale(C1, red)), GScale(C2, blue)), L))

\* ((nir - red) / (nir + red + L)) * (1 + L)
SaviGrid(red, nir, L) ==
  LET q == SafeDivide(GSub(nir, red), GPlus(GAdd(nir, red), L))
  IN Tab(Rows(q), LAMBDA r : Tab(Cols(q), LAMBDA c : FMul(q[r][c], FAdd(Num(1), L))))

\* the first band index of bs that src.read refuses, 0 when it reads them all
RECURSIVE FirstUnreadable(_)
FirstUnreadable(bs) ==
  IF bs = <<>> THEN 0
  ELSE IF Head(bs) \notin DOMAIN src.bands THEN 1
  ELSE IF FirstUnreadable(Tail(bs)) = 0 THEN 0
  ELSE FirstUnreadable(Tail(bs)) + 1

\* the checks every index tool makes before it computes: the path, then every
\* band index, then the reads in order.  err is "" when they all pass
IndexChecks(path, bs) ==
  IF ~PathExists(path) THEN Raised(FileNotFound, FALSE, <<>>)
  ELSE IF \E i \in 1..Len(bs) : ~ValidBand(bs[i]) THEN Raised(BadBands, TRUE, <<>>)
  ELSE IF FirstUnreadable(bs) # 0
    THEN Raised(BandIndexError, TRUE, SubSeq(bs, 1, FirstUnreadable(bs)))
  ELSE Returned(bs, <<>>, <<>>, <<>>)

calculate_ndvi(path, red_band, nir_band) ==
  IF IndexChecks(path, <<red_band, nir_band>>).err # ""
    THEN IndexChecks(path, <<red_band, nir_band>>)
  ELSE LET red == ReadNormalised(red_band)
           nir == ReadNormalised(nir_band)
           ndvi == NormalisedDifference(nir, red)
       IN Reported(<<red_band, nir_band>>, <<red, nir>>, <<ndvi>>,
                   calculate_index_stats(ndvi))

calculate_evi(path, red_band, nir_band, blue_band, G, C1, C2, L) ==
  IF IndexChecks(path, <<red_band, nir_band, blue_band>>).err # ""
    THEN IndexChecks(path, <<red_band, nir_band, blue_band>>)
  ELSE LET red == ReadNormalised(red_band)
           nir == ReadNormalised(nir_band)
           blue == ReadNormalised(blue_band)
           evi == EviGrid(red, nir, blue, G, C1, C2, L)
       IN Reported(<<red_band, nir_band, blue_band>>, <<red, nir, blue>>, <<evi>>,
                   calculate_index_stats(evi))

calculate_savi(path, red_band, nir_band, L) ==
  IF IndexChecks(path, <<red_band, nir_band>>).err # ""
    THEN IndexChecks(path, <<red_band, nir_band>>)
  ELSE LET red == ReadNormalised(red_band)
           nir == ReadNormalised(nir_band)
           savi == SaviGrid(red, nir, L)
       IN Reported(<<red_band, nir_band>>, <<red, nir>>, <<savi>>,
                   calculate_index_stats(savi))

calculate_ndwi(path, green_band, nir_band) ==
  IF IndexChecks(path, <<green_band, nir_band>>).err # ""
    THEN IndexChecks(path, <<green_band, nir_band>>)
  ELSE LET green == ReadNormalised(green_band)
           nir == ReadNormalised(nir_band)
           ndwi == NormalisedDifference(green, nir)
       IN Reported(<<green_band, nir_band>>, <<green, nir>>, <<ndwi>>,
                   calculate_index_stats(ndwi))

calculate_mndwi(path, green_band, swir_band) ==
  IF IndexChecks(path, <<green_band, swir_band>>).err # ""
    THEN IndexChecks(path, <<green_band, swir_band>>)
  ELSE LET green == ReadNormalised(green_band)
           swir == ReadNormalised(swir_band)
           mndwi == NormalisedDifference(green, swir)
       IN Reported(<<green_band, swir_band>>, <<green, swir>>, <<mndwi>>,
                   calculate_index_stats(mndwi))

\* the defaults G, C1, C2, L of calculate_evi (calculate_multiple_indices has
\* the same numbers written into its formula), and the default L of calculate_savi
EviDefaults == <<Rat(5, 2), Num(6), Rat(15, 2), Num(1)>>
SaviL == Rat(1, 2)

\* a variant of calculate_multiple_indices that fills NDWI and EVI through the
\* validity mask of NDVI
SharedMaskIndices(path, red_band, nir_band, green_band, blue_band) ==
  IF IndexChecks(path, <<red_band, nir_band, green_band, blue_band>>).err # ""
    THEN IndexChecks(path, <<red_band, nir_band, green_band, blue_band>>)
  ELSE LET red == ReadNormalised(red_band)
           nir == ReadNormalised(nir_band)
           green == ReadNormalised(green_band)
           blue == ReadNormalised(blue_band)
           ndvi == NormalisedDifference(nir, red)
           ndwi == RestoreMask(ndvi, NormalisedDifference(green, nir))
           evi == RestoreMask(ndvi, EviGrid(red, nir, blue, Rat(5, 2), Num(6), Rat(15, 2), Num(1)))
       IN Reported(<<red_band, nir_band, green_band, blue_band>>,
                   <<red, nir, green, blue>>, <<ndvi, ndwi, evi>>,
                   [ndvi |-> calculate_index_stats(ndvi),
                    ndwi |-> calculate_index_stats(ndwi),
                    evi |-> calculate_index_stats(evi)])

\* a variant of calculate_multiple_indices whose EVI is written without the
\* soil term L in the denominator
IndicesWithoutL(path, red_band, nir_band, green_band, blue_band) ==
  IF IndexChecks(path, <<red_band, nir_band, green_band, blue_band>>).err # ""
    THEN IndexChecks(path, <<red_band, nir_band, green_band, blue_band>>)
  ELSE LET red == ReadNormalised(red_band)
           nir == ReadNormalised(nir_band)
           green == ReadNormalised(green_band)
           blue == ReadNormalised(blue_band)
           ndvi == NormalisedDifference(nir, red)
           ndwi == NormalisedDifference(green, nir)
           evi == EviGrid(red, nir, blue, Rat(5, 2), Num(6), Rat(15, 2), Num(0))
       IN Reported(<<red_band, nir_band, green_band, blue_band>>,
                   <<red, nir, green, blue>>, <<ndvi, ndwi, evi>>,
                   [ndvi |-> calculate_index_stats(ndvi),
                    ndwi |-> calculate_index_stats(ndwi),
                    evi |-> calculate_index_stats(evi)])

calculate_multiple_indices(path, red_band, nir_band, green_band, blue_band) ==
  IF IndexChecks(path, <<red_band, nir_band, green_band, blue_band>>).err # ""
    THEN IndexChecks(path, <<red_band, nir_band, green_band, blue_band>>)
  ELSE LET red == ReadNormalised(red_band)
           nir == ReadNormalised(nir_band)
           green == ReadNormalised(green_band)
           blue == ReadNormalised(blue_band)
           ndvi == NormalisedDifference(nir, red)
           ndwi == NormalisedDifference(green, nir)
           evi == EviGrid(red, nir, blue, Rat(5, 2), Num(6), Rat(15, 2), Num(1))
       IN Reported(<<red_band, nir_band, green_band, blue_band>>,
                   <<red, nir, green, blue>>, <<ndvi, ndwi, evi>>,
                   [ndvi |-> calculate_index_stats(ndvi),
                    ndwi |-> calculate_index_stats(ndwi),
                    evi |-> calculate_index_stats(evi)])

(* ------------------------------------------------------------------ *)
(* raster/raster_metadata.py                                           *)
(* ------------------------------------------------------------------ *)
\* a variant of ReadMasked that reads the band without masked=True
ReadUnmasked(band) == ReadBand(band)

\* src.read(band, masked=True): the cells equal to the band's nodata value are
\* masked.  A masked cell is written NaN; band values themselves are never NaN
ReadMasked(band) ==
  IF src.nodatavals[band] # None
    THEN MaskSentinel(ReadBand(band), src.nodatavals[band])
    ELSE ReadBand(band)

\* numpy.ma defines median but no percentile: evaluating np.ma.percentile raises
NoMaPercentile == "AttributeError: module 'numpy.ma' has no attribute 'percentile'"


\* the loop of band_statistics over bands_to_process from position i on: the
\* statistics of the bands before it are in done
RECURSIVE BandStatsLoop(_, _, _)
BandStatsLoop(bands_to_process, i, done) ==
  IF i > Len(bands_to_process)
    THEN Reported(bands_to_process,
                  Tab(Len(bands_to_process), LAMBDA k : ReadMasked(bands_to_process[k])),
                  <<>>, [statistics |-> done])
  ELSE IF bands_to_process[i] \notin DOMAIN src.bands
    THEN Raised(BandIndexError, TRUE, SubSeq(bands_to_process, 1, i))
  ELSE IF CountValid(ReadMasked(bands_to_process[i])) = 0
    THEN BandStatsLoop(bands_to_process, i + 1, Append(done,
           [min |-> None, max |-> None, mean |-> None, std |-> None, count |-> 0]))
  ELSE Raised(NoMaPercentile, TRUE, SubSeq(bands_to_process, 1, i))

\* band_number is None (every band) or a band index
band_statistics(path, band_number) ==
  IF ~PathExists(path) THEN Raised(FileNotFound, FALSE, <<>>)
  ELSE IF band_number # None /\ ~ValidBand(band_number[1]) THEN Raised(BadBand, TRUE, <<>>)
  ELSE BandStatsLoop(IF band_number # None THEN <<band_number[1]>>
                     ELSE Tab(src.count, LAMBDA i : i), 1, <<>>)

BadBins == "ValueError: bins must be positive, when an integer"
NoValidData == "No valid data in band"

\* np.histogram(values, bins): bins equal-width bins from the minimum to the
\* maximum (from min - 0.5 to max + 0.5 when they are equal); the last bin is
\* closed on the right
HistFirst(values) ==
  IF FMinSeq(values) = FMaxSeq(values)
    THEN FSub(FMinSeq(values), Rat(1, 2)) ELSE FMinSeq(values)
HistLast(values) ==
  IF FMinSeq(values) = FMaxSeq(values)
    THEN FAdd(FMaxSeq(values), Rat(1, 2)) ELSE FMaxSeq(values)
HistEdges(values, bins) ==
  Tab((bins + 1), LAMBDA i :
     FAdd(HistFirst(values),
          FMul(Rat(i - 1, bins), FSub(HistLast(values), HistFirst(values)))))
\* a variant of HistBin whose last bin is open on the right like the others
HalfOpenBin(v, values, bins) ==
  LET q == FDiv(FMul(Num(bins), FSub(v, HistFirst(values))),
                FSub(HistLast(values), HistFirst(values)))
  IN (q[1] \div q[2]) + 1
\* the bin (1..bins) of value v
HistBin(v, values, bins) ==
  IF v = HistLast(values) THEN bins
  ELSE LET q == FDiv(FMul(Num(bins), FSub(v, HistFirst(values))),
                     FSub(HistLast(values), HistFirst(values)))
       IN (q[1] \div q[2]) + 1
HistCounts(values, bins) ==
  Tab(bins, LAMBDA b :
     Cardinality({i \in 1..Len(values) : HistBin(values[i], values, bins) = b}))

histogram_data(path, band_number, bins) ==
  IF ~PathExists(path) THEN Raised(FileNotFound, FALSE, <<>>)
  ELSE IF ~ValidBand(band_number) THEN Raised(BadBand, TRUE, <<>>)
  ELSE IF band_number \notin DOMAIN src.bands THEN Raised(BandIndexError, TRUE, <<band_number>>)
  ELSE LET data == ReadMasked(band_number)
           values == Valid(Flatten(data))
       IN IF values = <<>>
            THEN Returned(<<band_number>>, <<data>>, <<>>,
                          [error |-> NoValidData, band_number |-> band_number])
          ELSE IF bins < 1 THEN Raised(BadBins, TRUE, <<band_number>>)
          ELSE Returned(<<band_number>>, <<data>>, <<>>,
                        [bins |-> bins,
                         histogram |-> HistCounts(values, bins),
                         bin_edges |-> HistEdges(values, bins),
                         total_pixels |-> Len(values),
                         data_min |-> FMinSeq(values),
                         data_max |-> FMaxSeq(values)])

\* np.unique(values, return_counts=True): the distinct values in ascending
\* order, each with its number of occurrences
RECURSIVE Dedup(_)
Dedup(t) ==
  IF Len(t) <= 1 THEN t
  ELSE IF t[1] = t[2] THEN Dedup(Tail(t))
  ELSE <<t[1]>> \o Dedup(Tail(t))
UniqueVals(values) == Dedup(Sorted(values))
Occurrences(v, values) == Cardinality({i \in 1..Len(values) : values[i] = v})

\* np.argsort(counts): the positions in ascending order of count, equal counts
\* in their order of position
RECURSIVE InsertByCount(_, _, _)
InsertByCount(i, order, counts) ==
  IF order = <<>> THEN <<i>>
  ELSE IF counts[i] < counts[order[1]] THEN <<i>> \o order
  ELSE <<order[1]>> \o InsertByCount(i, Tail(order), counts)
RECURSIVE ArgSortUpTo(_, _)
ArgSortUpTo(counts, n) ==
  IF n = 0 THEN <<>> ELSE InsertByCount(n, ArgSortUpTo(counts, n - 1), counts)
\* a variant of Reversed that leaves the order ascending
NotReversed(s) == s
\* the slice s[::-1]
Reversed(s) == Tab(Len(s), LAMBDA i : s[Len(s) + 1 - i])
\* the Python slice s[:m]
SliceTo(s, m) ==
  IF m >= 0 THEN SubSeq(s, 1, IF m < Len(s) THEN m ELSE Len(s))
  ELSE SubSeq(s, 1, IF Len(s) + m > 0 THEN Len(s) + m ELSE 0)

unique_values(path, band_number, max_unique) ==
  IF ~PathExists(path) THEN Raised(FileNotFound, FALSE, <<>>)
  ELSE IF ~ValidBand(band_number) THEN Raised(BadBand, TRUE, <<>>)
  ELSE IF band_number \notin DOMAIN src.bands THEN Raised(BandIndexError, TRUE, <<band_number>>)
  ELSE LET data == ReadMasked(band_number)
           values == Valid(Flatten(data))
           unique_vals == UniqueVals(values)
           counts == Tab(Len(unique_vals), LAMBDA i : Occurrences(unique_vals[i], values))
           truncated == Len(unique_vals) > max_unique
           sorted_indices == IF truncated
                               THEN SliceTo(Reversed(ArgSortUpTo(counts, Len(counts))), max_unique)
                               ELSE Tab(Len(unique_vals), LAMBDA i : i)
           \* the dictionary keyed by str(float(val)), in insertion order: a key is
           \* written as the float it prints (distinct floats print differently)
           value_counts == Tab(Len(sorted_indices), LAMBDA i :
                              <<unique_vals[sorted_indices[i]], counts[sorted_indices[i]]>>)
       IN IF values = <<>>
            THEN Returned(<<band_number>>, <<data>>, <<>>,
                          [error |-> NoValidData, band_number |-> band_number])
          ELSE Returned(<<band_number>>, <<data>>, <<>>,
                        [total_unique_values |-> Len(unique_vals),
                         returned_values |-> Len(value_counts),
                         truncated |-> truncated,
                         value_counts |-> value_counts])

(* ------------------------------------------------------------------ *)
(* Files and requests                                                  *)
(* ------------------------------------------------------------------ *)
\* the h x w grids with cells in vals
IntGrids(h, w, vals) == [1..h -> [1..w -> vals]]

\* a file in EPSG:3857 whose bounds are 2 degrees by 1 degree at the origin
Source(bands, nodatavals) ==
  [count |-> Len(bands), bands |-> bands, nodatavals |-> nodatavals,
   crs |-> <<"EPSG:3857">>,
   bounds |-> <<Num(0), Num(0), Num(222640), Num(111320)>>]

\* one-band files, every shape of at most MaxCells cells, values 0..MaxVal, the
\* nodata value 0: a cell is missing where it holds 0
BandShapes == {hw \in (1..MaxCells) \X (1..MaxCells) : hw[1] * hw[2] <= MaxCells}
BandSources ==
  UNION {{Source(<<g>>, <<Num(0)>>) : g \in IntGrids(hw[1], hw[2], 0..MaxVal)}
         : hw \in BandShapes}

\* the same bands, the nodata value absent, NaN, one of the values or a value
\* no cell holds
BandNodata == {None, NaN} \cup {Num(v) : v \in 0..(MaxVal + 1)}
NormSources(hw) ==
  {Source(<<g>>, <<nd>>) : g \in IntGrids(hw[1], hw[2], 0..MaxVal), nd \in BandNodata}

\* two-band files of 1 x 2 pixels, values -1..MaxDN, the nodata value of each
\* band absent or 0
IndexSources ==
  {Source(<<g1, g2>>, <<n1, n2>>) :
     g1 \in IntGrids(1, 2, (-1)..MaxDN), g2 \in IntGrids(1, 2, (-1)..MaxDN),
     n1 \in {None, Num(0)}, n2 \in {None, Num(0)}}

\* files of 1..MaxBands bands of one pixel, values 0 or 1, nodata absent or 0
PixelSources ==
  UNION {{Source(bs, nds) : bs \in [1..n -> IntGrids(1, 1, {0, 1})],
                            nds \in [1..n -> {None, Num(0)}]}
         : n \in 1..MaxBands}

(* ------------------------------------------------------------------ *)
(* postgresql/postgresql_server.py                                     *)
(* ------------------------------------------------------------------ *)
ConnectionIds == {"main", "gis"}

\* no connect_database has been called and nothing has been committed
NoDatabase == connections = [id \in ConnectionIds |-> <<>>] /\ db = {}

\* a query is the list of statements sqlparse.parse gives, a statement the list
\* of its tokens [ttype, value]
Tok(ttype, value) == [ttype |-> ttype, value |-> value]
SelectGeom == <<Tok("Keyword.DML", "SELECT"), Tok("Name", "geom"),
               Tok("Keyword", "FROM"), Tok("Name", "parcels")>>
DropTable == <<Tok("Keyword.DDL", "DROP"), Tok("Keyword", "TABLE"), Tok("Name", "parcels")>>
Queries ==
  {<<>>,
   <<SelectGeom>>,
   <<<<Tok("Keyword.DML", "select"), Tok("Name", "id"), Tok("Keyword", "FROM"),
       Tok("Name", "parcels"), Tok("Keyword", "limit"), Tok("Literal.Number.Integer", "5")>>>>,
   <<SelectGeom, DropTable>>,
   <<<<Tok("Comment.Single", "-- tidy up"), Tok("Whitespace", " "),
       Tok("Keyword.DDL", "drop"), Tok("Keyword", "TABLE"), Tok("Name", "parcels")>>>>,
   <<<<Tok("Comment.Multiline", "/* all parcels */"), Tok("Whitespace", " ")>> \o SelectGeom>>,
   <<<<Tok("Keyword", "CALL"), Tok("Name", "purge_parcels"), Tok("Punctuation", "()")>>>>,
   <<<<Tok("Keyword.CTE", "WITH"), Tok("Name", "gone"), Tok("Keyword", "AS"),
       Tok("Punctuation", "("), Tok("Keyword.DML", "DELETE"), Tok("Keyword", "FROM"),
       Tok("Name", "parcels"), Tok("Keyword", "RETURNING"), Tok("Name", "id"),
       Tok("Punctuation", ")"), Tok("Keyword.DML", "SELECT"), Tok("Name", "id"),
       Tok("Keyword", "FROM"), Tok("Name", "gone"), Tok("Keyword", "LIMIT"),
       Tok("Literal.Number.Integer", "5")>>>>}

\* str.upper on the token values that occur
Upper(value) ==
  CASE value = "select" -> "SELECT"
    [] value = "drop" -> "DROP"
    [] value = "limit" -> "LIMIT"
    [] OTHER -> value

dangerous_keywords ==
  {"DROP", "DELETE", "UPDATE", "INSERT", "ALTER", "CREATE", "TRUNCATE", "GRANT", "REVOKE"}

\* the first token of a statement that is neither whitespace nor a comment,
\* None when it has none
FirstToken(statement) ==
  LET kept == SelectSeq(statement, LAMBDA token :
                  token.ttype \notin {"Whitespace", "Comment.Single", "Comment.Multiline"})
  IN IF kept = <<>> THEN None ELSE <<kept[1]>>

\* a query is safe when it parses to at least one statement and no statement
\* begins, whitespace and comments aside, with one of dangerous_keywords
is_safe_query(query) ==
  /\ query # <<>>
  /\ \A i \in 1..Len(query) :
       LET first_token == FirstToken(query[i])
       IN ~(first_token # None /\ Upper(first_token[1].value) \in dangerous_keywords)

\* the tokens of the query text in order
RECURSIVE Tokens(_)
Tokens(query) == IF query = <<>> THEN <<>> ELSE Head(query) \o Tokens(Tail(query))

\* query.strip().upper().startswith(('SELECT', 'WITH')): the text begins,
\* after leading whitespace, with one of the two words; a comment is text
StartsWithSelect(query) ==
  LET text == SelectSeq(Tokens(query), LAMBDA token : token.ttype # "Whitespace")
  IN text # <<>> /\ Upper(text[1].value) \in {"SELECT", "WITH"}

\* "LIMIT" not in query.upper() => query += " LIMIT {limit}"
WithLimit(query, limit) ==
  IF \E i \in 1..Len(Tokens(query)) : Upper(Tokens(query)[i].value) = "LIMIT"
    THEN query
    ELSE [query EXCEPT ![Len(query)] =
            @ \o <<Tok("Keyword", "LIMIT"), Tok("Literal.Number.Integer", limit)>>]

\* query.replace("geom", "ST_AsGeoJSON(geom) as geom_json")
AsGeoJSON(query) ==
  [i \in 1..Len(query) |->
     [j \in 1..Len(query[i]) |->
        IF query[i][j].value = "geom"
          THEN Tok("Name", "ST_AsGeoJSON(geom) as geom_json") ELSE query[i][j]]]

\* what the database does with a statement it accepts: a statement with a
\* data-changing word changes data in the open transaction
Changes(query) ==
  IF \E i \in 1..Len(Tokens(query)) :
        /\ Tokens(query)[i].ttype \notin {"Comment.Single", "Comment.Multiline"}
        /\ Upper(Tokens(query)[i].value) \in dangerous_keywords \cup {"CALL"}
    THEN {query} ELSE {}

NoConnection == "ValueError: No connection found for ID"
AlreadyClosed == "InterfaceError: connection already closed"
DatabaseError == "psycopg2.Error"
ConnectFailed == "psycopg2.OperationalError"
OnlySelect == "ValueError: Only SELECT queries are allowed for safety"

\* what a request did: the exception or "", the value returned, the texts
\* handed to cursor.execute, whether connection.commit was called, and the
\* dictionary and the database afterwards
Done(err, res, sent, committed, conns, data) ==
  [err |-> err, res |-> res, sent |-> sent, committed |-> committed,
   connections |-> conns, db |-> data]

\* accepted: whether the database runs the statement or raises
execute_query(connection_id, query, accepted) ==
  IF connections[connection_id] = <<>>
    THEN Done(NoConnection, <<>>, <<>>, FALSE, connections, db)
  ELSE LET connection == connections[connection_id][1]
       IN IF connection.closed
            THEN Done(AlreadyClosed, <<>>, <<>>, FALSE, connections, db)
          ELSE IF ~accepted
            THEN Done(DatabaseError, <<>>, <<query>>, FALSE,
                      [connections EXCEPT ![connection_id] =
                         <<[connection EXCEPT !.txn = {}]>>], db)
          ELSE IF StartsWithSelect(query)
            THEN Done("", "rows", <<query>>, FALSE,
                      [connections EXCEPT ![connection_id] =
                         <<[connection EXCEPT !.txn = @ \cup Changes(query)]>>], db)
          ELSE Done("", "rowcount", <<query>>, TRUE,
                    [connections EXCEPT ![connection_id] =
                       <<[connection EXCEPT !.txn = {}]>>],
                    db \cup connection.txn \cup Changes(query))

\* reachable: whether psycopg2.connect succeeds
connect_database(connection_id, reachable) ==
  LET closed == IF connections[connection_id] # <<>>
                  THEN [connections EXCEPT ![connection_id] =
                          <<[closed |-> TRUE, txn |-> {}]>>]
                  ELSE connections
  IN IF reachable
       THEN Done("", "Successfully connected to database", <<>>, FALSE,
                 [closed EXCEPT ![connection_id] = <<[closed |-> FALSE, txn |-> {}]>>], db)
       ELSE Done(ConnectFailed, <<>>, <<>>, FALSE, closed, db)

execute_select_query(connection_id, query, limit, accepted) ==
  IF ~is_safe_query(query)
    THEN Done(OnlySelect, <<>>, <<>>, FALSE, connections, db)
    ELSE execute_query(connection_id, WithLimit(query, limit), accepted)

execute_spatial_query(connection_id, query, geometry_format, accepted) ==
  IF ~is_safe_query(query)
    THEN Done(OnlySelect, <<>>, <<>>, FALSE, connections, db)
    ELSE execute_query(connection_id,
                       IF geometry_format = "GeoJSON" THEN AsGeoJSON(query) ELSE query,
                       accepted)

list_connections ==
  LET ids == {id \in ConnectionIds : connections[id] # <<>>}
  IN Done("", [active_connections |-> ids, count |-> Cardinality(ids)], <<>>, FALSE,
          connections, db)

close_connection(connection_id) ==
  IF connections[connection_id] # <<>>
    THEN Done("", "Successfully closed connection", <<>>, FALSE,
              [connections EXCEPT ![connection_id] = <<>>], db)
    ELSE Done("", "No connection found with ID", <<>>, FALSE, connections, db)

Idle == [op |-> "idle", args |-> <<>>]
Waiting == Raised("", FALSE, <<>>)

Serve(op, args, result) ==
  /\ call = Idle
  /\ call' = [op |-> op, args |-> args]
  /\ out' = result
  /\ UNCHANGED <<src, connections, db>>

\* the result has gone to the client; the server waits for the next request
Respond ==
  /\ call # Idle
  /\ call' = Idle
  /\ out' = Waiting
  /\ UNCHANGED <<src, connections, db>>

\* the arguments the requests are made with
AnyBand == (-1)..(src.count + 1)
EdgeBand == {0, 1, src.count + 1}
GoodBand == 1..src.count

FocalMean(P, B, K) ==
  \E path \in P, b \in B, k \in K :
    Serve("focal_mean", <<path, b, k>>, focal_mean(path, b, k))
FocalMax(P, B, K) ==
  \E path \in P, b \in B, k \in K :
    Serve("focal_max", <<path, b, k>>, focal_max(path, b, k))
FocalMin(P, B, K) ==
  \E path \in P, b \in B, k \in K :
    Serve("focal_min", <<path, b, k>>, focal_min(path, b, k))
FocalStd(P, B, K) ==
  \E path \in P, b \in B, k \in K :
    Serve("focal_std", <<path, b, k>>, focal_std(path, b, k))
GaussianSmooth(P, B, S) ==
  \E path \in P, b \in B, sigma \in S :
    Serve("gaussian_smooth", <<path, b, sigma>>, gaussian_smooth(path, b, sigma))
MedianFilterAnalysis(P, B, S) ==
  \E path \in P, b \in B, size \in S :
    Serve("median_filter_analysis", <<path, b, size>>,
          median_filter_analysis(path, b, size))
EdgeDetection(P, B, M) ==
  \E path \in P, b \in B, method \in M :
    Serve("edge_detection", <<path, b, method>>, edge_detection(path, b, method))
CalculateNdvi(P, B) ==
  \E path \in P, red \in B, nir \in B :
    Serve("calculate_ndvi", <<path, red, nir>>, calculate_ndvi(path, red, nir))
CalculateEvi(P, B, B2, Q) ==
  \E path \in P, red \in B, nir \in B, blue \in B2, q \in Q :
    Serve("calculate_evi", <<path, red, nir, blue, q[1], q[2], q[3], q[4]>>,
          calculate_evi(path, red, nir, blue, q[1], q[2], q[3], q[4]))
CalculateSavi(P, B, Ls) ==
  \E path \in P, red \in B, nir \in B, L \in Ls :
    Serve("calculate_savi", <<path, red, nir, L>>, calculate_savi(path, red, nir, L))
CalculateNdwi(P, B) ==
  \E path \in P, green \in B, nir \in B :
    Serve("calculate_ndwi", <<path, green, nir>>, calculate_ndwi(path, green, nir))
CalculateMndwi(P, B) ==
  \E path \in P, green \in B, swir \in B :
    Serve("calculate_mndwi", <<path, green, swir>>, calculate_mndwi(path, green, swir))
CalculateMultipleIndices(P, B, B2) ==
  \E path \in P, red \in B, nir \in B, green \in B2, blue \in B2 :
    Serve("calculate_multiple_indices", <<path, red, nir, green, blue>>,
          calculate_multiple_indices(path, red, nir, green, blue))
BandStatistics(P, B) ==
  \E path \in P, b \in {None} \cup {<<i>> : i \in B} :
    Serve("band_statistics", <<path, b>>, band_statistics(path, b))
HistogramData(P, B, N) ==
  \E path \in P, b \in B, bins \in N :
    Serve("histogram_data", <<path, b, bins>>, histogram_data(path, b, bins))
UniqueValues(P, B, N) ==
  \E path \in P, b \in B, max_unique \in N :
    Serve("unique_values", <<path, b, max_unique>>, unique_values(path, b, max_unique))

(* ------------------------------------------------------------------ *)
(* Spec: every raster tool, with valid and invalid arguments, on files *)
(* of one pixel per band                                               *)
(* ------------------------------------------------------------------ *)
Init == src \in PixelSources /\ call = Idle /\ out = Waiting /\ NoDatabase

Next ==
  \/ FocalMean(Paths, AnyBand, {-1, 0, 1, 2, 3})
  \/ FocalMax(Paths, AnyBand, {-1, 0, 1, 2, 3})
  \/ FocalMin(Paths, AnyBand, {-1, 0, 1, 2, 3})
  \/ FocalStd(Paths, AnyBand, {-1, 0, 1, 2, 3})
  \/ GaussianSmooth(Paths, AnyBand, {Num(-1), Num(0), Rat(1, 10), Rat(1, 2)})
  \/ MedianFilterAnalysis(Paths, AnyBand, {-1, 0, 1, 2})
  \/ EdgeDetection(Paths, AnyBand, {"sobel", "gradient", "canny"})
  \/ CalculateNdvi(Paths, AnyBand)
  \/ CalculateEvi({ThePath}, AnyBand, EdgeBand, {EviDefaults})
  \/ CalculateSavi(Paths, AnyBand, {SaviL})
  \/ CalculateNdwi(Paths, AnyBand)
  \/ CalculateMndwi(Paths, AnyBand)
  \/ CalculateMultipleIndices({ThePath}, AnyBand, EdgeBand)
  \/ BandStatistics(Paths, AnyBand)
  \/ HistogramData(Paths, AnyBand, {-1, 0, 1, 2})
  \/ UniqueValues(Paths, AnyBand, {-1, 0, 1, 2})
  \/ Respond

Spec == Init /\ [][Next]_vars

(* ------------------------------------------------------------------ *)
(* SpecBand: the single-band tools with valid arguments on one-band    *)
(* files of every shape up to MaxCells cells                           *)
(* ------------------------------------------------------------------ *)
InitBand == src \in BandSources /\ call = Idle /\ out = Waiting /\ NoDatabase

NextBand ==
  \/ FocalMean({ThePath}, GoodBand, {1, 3, 5})
  \/ FocalMax({ThePath}, GoodBand, {1, 3, 5})
  \/ FocalMin({ThePath}, GoodBand, {1, 3, 5})
  \/ FocalStd({ThePath}, GoodBand, {1, 3, 5})
  \/ GaussianSmooth({ThePath}, GoodBand, {Rat(1, 10), Rat(1, 4), Rat(1, 2)})
  \/ MedianFilterAnalysis({ThePath}, GoodBand, {1, 2, 3})
  \/ EdgeDetection({ThePath}, GoodBand, {"sobel", "gradient"})
  \/ CalculateNdvi({ThePath}, GoodBand)
  \/ BandStatistics({ThePath}, GoodBand)
  \/ Respond

SpecBand == InitBand /\ [][NextBand]_vars

(* ------------------------------------------------------------------ *)
(* SpecFocal: the four focal tools alone on the same one-band files    *)
(* ------------------------------------------------------------------ *)
NextFocal ==
  \/ FocalMean({ThePath}, GoodBand, {1, 3, 5})
  \/ FocalMax({ThePath}, GoodBand, {1, 3, 5})
  \/ FocalMin({ThePath}, GoodBand, {1, 3, 5})
  \/ FocalStd({ThePath}, GoodBand, {1, 3, 5})
  \/ Respond

SpecFocal == InitBand /\ [][NextFocal]_vars

(* ------------------------------------------------------------------ *)
(* SpecMeta: histogram_data and unique_values on the same one-band     *)
(* files, with every bins and max_unique from -1 up                    *)
(* ------------------------------------------------------------------ *)
NextMeta ==
  \/ HistogramData({ThePath}, GoodBand, (-1)..(MaxVal + 1))
  \/ UniqueValues({ThePath}, GoodBand, (-1)..(MaxVal + 1))
  \/ Respond

SpecMeta == InitBand /\ [][NextMeta]_vars

(* ------------------------------------------------------------------ *)
(* SpecIndex: the spectral indices with valid band indices on two-band *)
(* files                                                               *)
(* ------------------------------------------------------------------ *)
InitIndex == src \in IndexSources /\ call = Idle /\ out = Waiting /\ NoDatabase

NextIndex ==
  \/ CalculateNdvi({ThePath}, GoodBand)
  \/ CalculateEvi({ThePath}, GoodBand, {1}, {EviDefaults, <<Num(1), Num(0), Num(0), Num(0)>>})
  \/ CalculateSavi({ThePath}, GoodBand, {SaviL, Num(-1)})
  \/ CalculateNdwi({ThePath}, GoodBand)
  \/ CalculateMndwi({ThePath}, GoodBand)
  \/ CalculateMultipleIndices({ThePath}, GoodBand, {1})
  \/ Respond

SpecIndex == InitIndex /\ [][NextIndex]_vars

(* ------------------------------------------------------------------ *)
(* SpecBounds: the tools that report bounds_wgs84, with valid          *)
(* arguments, on one-pixel files of every coordinate system            *)
(* ------------------------------------------------------------------ *)
\* the one-pixel files with no coordinate system, in WGS84, in EPSG:3857 and
\* in an engineering coordinate system, each with bounds in its own units
InitBounds ==
  /\ src \in
      {[s EXCEPT !.crs = cb[1], !.bounds = cb[2]] :
         s \in PixelSources,
         cb \in {<<None, <<Num(0), Num(0), Num(1), Num(1)>>>>,
                 <<<<"EPSG:4326">>, <<Num(0), Num(0), Num(2), Num(1)>>>>,
                 <<<<"EPSG:3857">>, <<Num(0), Num(0), Num(222640), Num(111320)>>>>,
                 <<<<"LOCAL_CS">>, <<Num(0), Num(0), Num(100), Num(50)>>>>}}
  /\ call = Idle
  /\ out = Waiting /\ NoDatabase

NextBounds ==
  \/ FocalMean({ThePath}, GoodBand, {3})
  \/ FocalMax({ThePath}, GoodBand, {3})
  \/ FocalMin({ThePath}, GoodBand, {3})
  \/ FocalStd({ThePath}, GoodBand, {3})
  \/ GaussianSmooth({ThePath}, GoodBand, {Rat(1, 2)})
  \/ MedianFilterAnalysis({ThePath}, GoodBand, {3})
  \/ EdgeDetection({ThePath}, GoodBand, {"sobel", "gradient"})
  \/ CalculateNdvi({ThePath}, GoodBand)
  \/ CalculateEvi({ThePath}, GoodBand, {1}, {EviDefaults})
  \/ CalculateSavi({ThePath}, GoodBand, {SaviL})
  \/ CalculateNdwi({ThePath}, GoodBand)
  \/ CalculateMndwi({ThePath}, GoodBand)
  \/ CalculateMultipleIndices({ThePath}, GoodBand, {1})
  \/ BandStatistics({ThePath}, GoodBand)
  \/ Respond

SpecBounds == InitBounds /\ [][NextBounds]_vars

(* ------------------------------------------------------------------ *)
(* SpecTwoByTwo: focal_mean on the 2 x 2 one-band files with cells     *)
(* 1, 2, 3 or the nodata value -9999                                   *)
(* ------------------------------------------------------------------ *)
InitTwoByTwo ==
  /\ src \in {Source(<<g>>, <<Num(-9999)>>) : g \in IntGrids(2, 2, {-9999, 1, 2, 3})}
  /\ call = Idle
  /\ out = Waiting /\ NoDatabase

NextTwoByTwo ==
  \/ FocalMean({ThePath}, GoodBand, {1, 3})
  \/ Respond

SpecTwoByTwo == InitTwoByTwo /\ [][NextTwoByTwo]_vars

(* ------------------------------------------------------------------ *)
(* SpecSession: up to three raster requests in flight at once on one   *)
(* two-band file; call is the list of requests received and out the    *)
(* list of their results, Waiting while a request has not returned     *)
(* ------------------------------------------------------------------ *)
SessionRequests ==
  UNION {{[op |-> "focal_mean", args |-> <<ThePath, b, 3>>],
          [op |-> "gaussian_smooth", args |-> <<ThePath, b, Rat(1, 2)>>],
          [op |-> "edge_detection", args |-> <<ThePath, b, "sobel">>],
          [op |-> "calculate_ndvi", args |-> <<ThePath, b, 1>>],
          [op |-> "band_statistics", args |-> <<ThePath, <<b>>>>]} : b \in 1..2}

\* the tool function the server runs for request c
Handle(c) ==
  CASE c.op = "focal_mean" -> focal_mean(c.args[1], c.args[2], c.args[3])
    [] c.op = "gaussian_smooth" -> gaussian_smooth(c.args[1], c.args[2], c.args[3])
    [] c.op = "edge_detection" -> edge_detection(c.args[1], c.args[2], c.args[3])
    [] c.op = "calculate_ndvi" -> calculate_ndvi(c.args[1], c.args[2], c.args[3])
    [] c.op = "band_statistics" -> band_statistics(c.args[1], c.args[2])

\* a request arrives while others may still be running
Begin ==
  /\ Len(call) < 3
  /\ \E c \in SessionRequests :
       /\ call' = Append(call, c)
       /\ out' = Append(out, Waiting)
  /\ UNCHANGED <<src, connections, db>>

\* one of the running requests opens the file, computes and returns
Complete ==
  /\ \E i \in 1..Len(call) :
       /\ out[i] = Waiting
       /\ out' = [out EXCEPT ![i] = Handle(call[i])]
  /\ UNCHANGED <<src, call, connections, db>>

InitSession ==
  /\ src \in {f \in PixelSources : f.count = 2 /\ f.nodatavals = <<None, Num(0)>>}
  /\ call = <<>>
  /\ out = <<>> /\ NoDatabase

NextSession == Begin \/ Complete

SpecSession == InitSession /\ [][NextSession]_vars

(* ------------------------------------------------------------------ *)
(* SpecArrays: the stages of a request on numpy arrays. m.mem is the   *)
(* list of arrays allocated so far, an array is named by its position  *)
(* in it, m.ret is the array a step returns and m.written the arrays   *)
(* that were assigned to in place                                      *)
(* ------------------------------------------------------------------ *)
\* a newly allocated array holding g: the result of an arithmetic expression,
\* np.full_like, a scipy filter
Alloc(m, g) == [mem |-> Append(m.mem, g), ret |-> Len(m.mem) + 1, written |-> m.written]

\* a variant of CopyOf that returns the array itself, as astype(copy=False)
\* and a slice do
ViewOf(m, a) == [m EXCEPT !.ret = a]
\* a.astype("float32") and a.copy(): a new array with the cells of a
CopyOf(m, a) == Alloc(m, m.mem[a])

\* a[mask] = values: array a holds g afterwards
Store(m, a, g) ==
  [mem |-> [m.mem EXCEPT ![a] = g], ret |-> a, written |-> m.written \cup {a}]

\* handle_nodata on the array data
HandleNodataArray(m, data, nodata_val) ==
  IF nodata_val # None /\ ~IsNaN(nodata_val)
    THEN LET c == CopyOf(m, data)
         IN Store(c, c.ret, MaskSentinel(c.mem[c.ret], nodata_val))
    ELSE [m EXCEPT !.ret = data]

\* band = src.read(b).astype("float32"); band[band == nodata] = np.nan
\* on the array raw that src.read gave
NormaliseBandArray(m, raw, nodata) ==
  LET c == CopyOf(m, raw)
  IN IF nodata # None THEN Store(c, c.ret, MaskSentinel(c.mem[c.ret], nodata)) ELSE c

\* the substitute-then-filter step of gaussian_smooth on the array
\* original_data
SmoothArray(m, original_data, sigma) ==
  IF CountValid(m.mem[original_data]) > 0
    THEN LET t == CopyOf(m, original_data)
             temp_data == Store(t, t.ret, FillMissing(t.mem[t.ret],
                                             NanMean(Flatten(t.mem[original_data]))))
             filtered_temp == Alloc(temp_data,
                                    GaussianFilter(temp_data.mem[temp_data.ret], sigma))
             filtered_data == Alloc(filtered_temp, FullNaN(filtered_temp.mem[original_data]))
         IN Store(filtered_data, filtered_data.ret,
                  RestoreMask(filtered_data.mem[original_data],
                              filtered_data.mem[filtered_temp.ret]))
    ELSE Alloc(m, FullNaN(m.mem[original_data]))

\* the index computation of calculate_ndvi on the arrays red and nir
NdviArray(m, red, nir) ==
  LET denominator == Alloc(m, GAdd(m.mem[nir], m.mem[red]))
      ndvi == Alloc(denominator, FullNaN(denominator.mem[denominator.ret]))
  IN Store(ndvi, ndvi.ret, NormalisedDifference(ndvi.mem[nir], ndvi.mem[red]))

\* a stage ran on the arrays before.mem and received those at the positions
\* args; out.norm is what they held when the stage began
Stage(op, before, args, m) ==
  /\ call = Idle
  /\ call' = [op |-> op, args |-> args]
  /\ out' = Returned(<<1>>, before.mem, <<m.mem[m.ret]>>, m)
  /\ UNCHANGED <<src, connections, db>>

HandleNodataStage ==
  LET before == Alloc([mem |-> <<>>, written |-> {}], ReadBand(1))
  IN Stage("handle_nodata", before, <<1>>,
           HandleNodataArray(before, 1, src.nodatavals[1]))
NormaliseBandStage ==
  LET before == Alloc([mem |-> <<>>, written |-> {}], ReadBand(1))
  IN Stage("normalise_band", before, <<1>>,
           NormaliseBandArray(before, 1, src.nodatavals[1]))
SmoothStage ==
  LET before == Alloc([mem |-> <<>>, written |-> {}],
                      handle_nodata(ReadBand(1), src.nodatavals[1]))
  IN \E sigma \in {Rat(1, 4), Rat(1, 2)} :
       Stage("gaussian_filter", before, <<1>>, SmoothArray(before, 1, sigma))
NdviStage ==
  LET red == Alloc([mem |-> <<>>, written |-> {}], ReadNormalised(1))
      before == Alloc(red, ReadNormalised(1))
  IN Stage("ndvi", before, <<1, 2>>, NdviArray(before, 1, 2))

InitArrays ==
  /\ src \in {[f EXCEPT !.nodatavals = <<nodata>>] :
                f \in BandSources, nodata \in {None, Num(0)}}
  /\ call = Idle
  /\ out = Waiting /\ NoDatabase

NextArrays ==
  \/ HandleNodataStage
  \/ NormaliseBandStage
  \/ SmoothStage
  \/ NdviStage
  \/ Respond

SpecArrays == InitArrays /\ [][NextArrays]_vars

(* ------------------------------------------------------------------ *)
(* SpecPg: the connection and query tools of the PostgreSQL server     *)
(* ------------------------------------------------------------------ *)
\* the server ran a tool: the request, what it did, and the dictionary and the
\* database it left
Tool(op, args, done) ==
  /\ call' = [op |-> op, args |-> args]
  /\ out' = [err |-> done.err, res |-> done.res, sent |-> done.sent,
              committed |-> done.committed]
  /\ connections' = done.connections
  /\ db' = done.db
  /\ UNCHANGED src

ConnectDatabase ==
  \E id \in ConnectionIds, reachable \in BOOLEAN :
    Tool("connect_database", <<id, reachable>>, connect_database(id, reachable))
CloseConnection ==
  \E id \in ConnectionIds : Tool("close_connection", <<id>>, close_connection(id))
ListConnections == Tool("list_connections", <<>>, list_connections)
ExecuteSelectQuery ==
  \E id \in ConnectionIds, query \in Queries, accepted \in BOOLEAN :
    Tool("execute_select_query", <<id, query, "1000">>,
         execute_select_query(id, query, "1000", accepted))
ExecuteSpatialQuery ==
  \E id \in ConnectionIds, query \in Queries, format \in {"WKT", "GeoJSON"},
     accepted \in BOOLEAN :
    Tool("execute_spatial_query", <<id, query, format>>,
         execute_spatial_query(id, query, format, accepted))

InitPg ==
  /\ src = Source(<<<<<<1>>>>>>, <<None>>)
  /\ call = Idle
  /\ out = Waiting /\ NoDatabase

NextPg ==
  \/ ConnectDatabase
  \/ CloseConnection
  \/ ListConnections
  \/ ExecuteSelectQuery
  \/ ExecuteSpatialQuery

SpecPg == InitPg /\ [][NextPg]_vars

(* ------------------------------------------------------------------ *)
(* SpecNorm: missing-value normalisation alone, applied to a band as   *)
(* read and then to its own result                                     *)
(* ------------------------------------------------------------------ *)
\* out.norm[1] is the grid handed to the normaliser, out.grids[1] what it gave
Normalised(op, data, result) ==
  /\ call' = [op |-> op, args |-> <<src.nodatavals[1]>>]
  /\ out' = Returned(<<1>>, <<data>>, <<result>>, <<>>)
  /\ UNCHANGED <<src, connections, db>>

HandleNodata ==
  /\ call = Idle
  /\ Normalised("handle_nodata", ReadBand(1),
                handle_nodata(ReadBand(1), src.nodatavals[1]))
HandleNodataAgain ==
  /\ call.op = "handle_nodata"
  /\ Normalised("handle_nodata_again", out.grids[1],
                handle_nodata(out.grids[1], src.nodatavals[1]))
NormaliseIndexBand ==
  /\ call = Idle
  /\ Normalised("normalise_band", ReadBand(1),
                NormaliseBand(ReadBand(1), src.nodatavals[1]))
NormaliseIndexBandAgain ==
  /\ call.op = "normalise_band"
  /\ Normalised("normalise_band_again", out.grids[1],
                NormaliseBand(out.grids[1], src.nodatavals[1]))

InitNorm ==
  /\ \E hw \in BandShapes : src \in NormSources(hw)
  /\ call = Idle
  /\ out = Waiting /\ NoDatabase

NextNorm ==
  \/ HandleNodata
  \/ HandleNodataAgain
  \/ NormaliseIndexBand
  \/ NormaliseIndexBandAgain
  \/ Respond

SpecNorm == InitNorm /\ [][NextNorm]_vars

(* ------------------------------------------------------------------ *)
(* Properties                                                          *)
(* ------------------------------------------------------------------ *)
\* band b of the file as a grid of floats, the cells that hold the band's
\* declared nodata value missing
Declared(b) ==
  Tab(Len(src.bands[b]), LAMBDA r : Tab(Len(src.bands[b][r]), LAMBDA c :
     IF src.nodatavals[b] # None /\ Num(src.bands[b][r][c]) = src.nodatavals[b]
       THEN NaN ELSE Num(src.bands[b][r][c])))

Cells(g) == (1..Rows(g)) \X (1..Cols(g))
SameShape(a, b) == Rows(a) = Rows(b) /\ Cols(a) = Cols(b)
Missing(g) == {rc \in Cells(g) : IsNaN(g[rc[1]][rc[2]])}

FocalOps == {"focal_mean", "focal_max", "focal_min", "focal_std"}
SmoothingOps == {"gaussian_smooth", "median_filter_analysis"}
IndexOps == {"calculate_ndvi", "calculate_evi", "calculate_savi", "calculate_ndwi",
             "calculate_mndwi", "calculate_multiple_indices"}

\* C1: gaussian_smooth (every sigma > 0) and median_filter_analysis (every
\* size > 0) return a grid of the shape of the band that is missing at exactly
\* the cells where the band is missing, and the original_valid_pixels and
\* filtered_valid_pixels they report are equal
C1_MaskPreserved ==
  call.op \in SmoothingOps =>
    /\ out.err = ""
    /\ SameShape(out.grids[1], Declared(call.args[2]))
    /\ Missing(out.grids[1]) = Missing(Declared(call.args[2]))
    /\ out.res.original_valid_pixels = out.res.filtered_valid_pixels
    /\ out.res.filtered_valid_pixels =
         Size(out.grids[1]) - Cardinality(Missing(Declared(call.args[2])))

\* a smoothing of a band with both missing and valid cells, by a kernel wider
\* than one cell
C1_Witness ==
  /\ call.op \in SmoothingOps
  /\ call.args[3] = (IF call.op = "gaussian_smooth" THEN Rat(1, 2) ELSE 3)
  /\ out.res.filtered_valid_pixels > 0
  /\ Missing(out.grids[1]) # {}

\* position i of a line of n cells extended by mirroring it about its two ends
RECURSIVE Mirror(_, _)
Mirror(i, n) ==
  IF i < 1 THEN Mirror(1 - i, n)
  ELSE IF i > n THEN Mirror(2 * n + 1 - i, n)
  ELSE i

\* the cells of the k x k window centred at rc of the mirrored grid g
MirrorWindow(g, rc, k) ==
  Tab(k * k, LAMBDA i :
     g[Mirror(rc[1] - (k \div 2) + ((i - 1) \div k), Rows(g))]
      [Mirror(rc[2] - (k \div 2) + ((i - 1) % k), Cols(g))])

\* x is what the reducer of op gives for the non-empty sequence v
Reduces(op, x, v) ==
  CASE op = "focal_mean" -> FMul(x, Num(Len(v))) = FSum(v)
    [] op = "focal_min" -> (\E i \in 1..Len(v) : x = v[i]) /\ (\A i \in 1..Len(v) : FLe(x, v[i]))
    [] op = "focal_max" -> (\E i \in 1..Len(v) : x = v[i]) /\ (\A i \in 1..Len(v) : FLe(v[i], x))
    [] op = "focal_std" -> x = Variance(v)

\* C2: for focal_mean, focal_min, focal_max and focal_std and every odd k, the
\* output cell is missing iff every cell of the k x k window of the mirrored
\* grid is missing, and is otherwise the reducer of the non-missing window cells
C2_FocalWindow ==
  call.op \in FocalOps =>
    /\ out.err = ""
    /\ SameShape(out.grids[1], Declared(call.args[2]))
    /\ \A rc \in Cells(out.grids[1]) :
         LET v == Valid(MirrorWindow(Declared(call.args[2]), rc, call.args[3]))
             x == out.grids[1][rc[1]][rc[2]]
         IN /\ IsNaN(x) <=> v = <<>>
            /\ v # <<>> => Reduces(call.op, x, v)

\* a focal operation with one output cell missing (its whole window is) and a
\* missing input cell whose output is not
C2_Witness ==
  /\ call.op \in FocalOps
  /\ call.args[3] = 3
  /\ Missing(out.grids[1]) # {}
  /\ Missing(out.norm[1]) \ Missing(out.grids[1]) # {}

\* numerator, denominator and factor of index k of the request at cell rc,
\* from the bands of the file
Parts(k, rc) ==
  LET a == call.args
      at(b) == Declared(b)[rc[1]][rc[2]]
      nd(x, y) == <<FSub(at(x), at(y)), FAdd(at(x), at(y)), Num(1)>>
      evi(red, nir, blue, G, C1, C2, L) ==
        <<FMul(G, FSub(at(nir), at(red))),
          FAdd(FSub(FAdd(at(nir), FMul(C1, at(red))), FMul(C2, at(blue))), L),
          Num(1)>>
  IN CASE call.op = "calculate_ndvi" -> nd(a[3], a[2])
       [] call.op = "calculate_evi" -> evi(a[2], a[3], a[4], a[5], a[6], a[7], a[8])
       [] call.op = "calculate_savi" ->
            <<FSub(at(a[3]), at(a[2])), FAdd(FAdd(at(a[3]), at(a[2])), a[4]),
              FAdd(Num(1), a[4])>>
       [] call.op = "calculate_ndwi" -> nd(a[2], a[3])
       [] call.op = "calculate_mndwi" -> nd(a[2], a[3])
       [] call.op = "calculate_multiple_indices" /\ k = 1 -> nd(a[3], a[2])
       [] call.op = "calculate_multiple_indices" /\ k = 2 -> nd(a[4], a[3])
       [] call.op = "calculate_multiple_indices" /\ k = 3 ->
            evi(a[2], a[3], a[5], Rat(5, 2), Num(6), Rat(15, 2), Num(1))

\* C3: in every index operation a cell whose denominator is 0 is missing, no
\* cell is infinite, the operation does not raise, and a cell with a non-zero
\* denominator and a non-missing numerator holds numerator / denominator of the
\* documented formula (times 1 + L for SAVI)
C3_ZeroDenominator ==
  call.op \in IndexOps =>
    /\ out.err = ""
    /\ \A k \in 1..Len(out.grids) : \A rc \in Cells(out.grids[k]) :
         LET p == Parts(k, rc)
             x == out.grids[k][rc[1]][rc[2]]
         IN /\ p[2] = Num(0) => IsNaN(x)
            /\ ~IsInf(x)
            /\ (IsFinite(p[1]) /\ IsFinite(p[2]) /\ p[2] # Num(0)) =>
                 x = FMul(FDiv(p[1], p[2]), p[3])

\* an index with a cell whose denominator is 0 under a non-zero numerator, and
\* a cell that holds a quotient
C3_Witness ==
  /\ call.op \in IndexOps
  /\ \E k \in 1..Len(out.grids) : \E rc \in Cells(out.grids[k]) :
       Parts(k, rc)[2] = Num(0) /\ IsFinite(Parts(k, rc)[1]) /\ Parts(k, rc)[1] # Num(0)
  /\ \E k \in 1..Len(out.grids) : \E rc \in Cells(out.grids[k]) :
       IsFinite(out.grids[k][rc[1]][rc[2]]) /\ out.grids[k][rc[1]][rc[2]] # Num(0)

\* the band arguments index k of the request reads
Required(k) ==
  LET a == call.args
  IN CASE call.op = "calculate_evi" -> {a[2], a[3], a[4]}
       [] call.op = "calculate_multiple_indices" /\ k = 1 -> {a[2], a[3]}
       [] call.op = "calculate_multiple_indices" /\ k = 2 -> {a[4], a[3]}
       [] call.op = "calculate_multiple_indices" /\ k = 3 -> {a[2], a[3], a[5]}
       [] OTHER -> {a[2], a[3]}

\* band b holds its declared nodata value at cell rc
IsSentinel(b, rc) ==
  src.nodatavals[b] # None /\ Num(src.bands[b][rc[1]][rc[2]]) = src.nodatavals[b]

\* C4: a cell where one of the bands an index needs holds that band's own
\* nodata value is missing in the index
C4_MissingPropagates ==
  call.op \in IndexOps =>
    \A k \in 1..Len(out.grids) : \A rc \in Cells(out.grids[k]) :
      (\E b \in Required(k) : IsSentinel(b, rc)) => IsNaN(out.grids[k][rc[1]][rc[2]])

\* an index with a missing input at a cell where the band values as stored
\* have a non-zero sum, and a cell that is not missing
C4_Witness ==
  /\ call.op = "calculate_ndvi"
  /\ \E rc \in Cells(out.grids[1]) :
       /\ \E b \in Required(1) : IsSentinel(b, rc)
       /\ src.bands[call.args[2]][rc[1]][rc[2]] + src.bands[call.args[3]][rc[1]][rc[2]] # 0
  /\ Missing(out.grids[1]) # Cells(out.grids[1])

\* C5: an NDVI cell with RED >= 0, NIR >= 0, not both 0, lies in [-1, 1]; a
\* cell with RED = NIR = 0 is missing; the reported min and max lie in [-1, 1]
\* when every non-missing value of the two bands is >= 0
C5_NdviRange ==
  call.op = "calculate_ndvi" =>
    LET red == Declared(call.args[2])
        nir == Declared(call.args[3])
        InRange(x) == FLe(Num(-1), x) /\ FLe(x, Num(1))
        NonNegative(g) ==
          \A rc \in Cells(g) : IsNaN(g[rc[1]][rc[2]]) \/ FLe(Num(0), g[rc[1]][rc[2]])
    IN /\ \A rc \in Cells(out.grids[1]) :
            LET r == red[rc[1]][rc[2]]
                n == nir[rc[1]][rc[2]]
                x == out.grids[1][rc[1]][rc[2]]
            IN /\ (FLe(Num(0), r) /\ FLe(Num(0), n) /\ ~(r = Num(0) /\ n = Num(0)))
                    => InRange(x)
               /\ (r = Num(0) /\ n = Num(0)) => IsNaN(x)
       /\ (NonNegative(red) /\ NonNegative(nir) /\ out.res.min # None)
            => InRange(out.res.min) /\ InRange(out.res.max)

\* an NDVI of non-negative bands with a 0/0 cell, reaching both ends of the range
C5_Witness ==
  /\ call.op = "calculate_ndvi"
  /\ call.args[2] # call.args[3]
  /\ \A b \in {1, 2} : src.nodatavals[b] = None
  /\ \A b \in {1, 2} : \A c \in 1..2 : src.bands[b][1][c] >= 0
  /\ \E c \in 1..2 : src.bands[1][1][c] = 0 /\ src.bands[2][1][c] = 0
  /\ out.res.max = Num(1)

\* C6: focal_mean returns a grid of the shape of the band for every odd window,
\* and on a band without missing cells whose cells all hold one value v every
\* output cell is v
C6_ShapeAndConstant ==
  call.op = "focal_mean" =>
    LET G == Declared(call.args[2])
    IN /\ out.err = ""
       /\ SameShape(out.grids[1], G)
       /\ \A v \in 0..MaxVal :
            (\A rc \in Cells(G) : G[rc[1]][rc[2]] = Num(v))
              => \A rc \in Cells(G) : out.grids[1][rc[1]][rc[2]] = Num(v)

\* focal_mean of a constant 2 x 2 band of ones with a window wider than the band
C6_Witness ==
  /\ call.op = "focal_mean"
  /\ call.args[3] = 5
  /\ Rows(out.grids[1]) = 2 /\ Cols(out.grids[1]) = 2
  /\ \A rc \in Cells(out.grids[1]) : out.norm[1][rc[1]][rc[2]] = Num(1)
  /\ \A rc \in Cells(out.grids[1]) : out.grids[1][rc[1]][rc[2]] = Num(1)

\* least and greatest element of a non-empty sequence of floats
IsLeast(x, v) == (\E i \in 1..Len(v) : x = v[i]) /\ (\A i \in 1..Len(v) : FLe(x, v[i]))
IsGreatest(x, v) == (\E i \in 1..Len(v) : x = v[i]) /\ (\A i \in 1..Len(v) : FLe(v[i], x))

FilterOps == FocalOps \cup SmoothingOps \cup {"edge_detection"}

\* C7 (the all-missing half): the summary of a grid whose cells are all missing
\* has a valid count of 0 and null min, max, mean and std, in band_statistics,
\* calculate_index_stats and calculate_filter_stats, and none of them raises
C7_AllMissingSummary ==
  /\ (call.op \in FilterOps /\ Missing(Declared(call.args[2])) = Cells(Declared(call.args[2])))
       => /\ out.err = ""
          /\ out.res.filtered_valid_pixels = 0
          /\ out.res.min = None /\ out.res.max = None
          /\ out.res.mean = None /\ out.res.std = None
  /\ (call.op = "calculate_ndvi" /\ out.err = "" /\ Missing(out.grids[1]) = Cells(out.grids[1]))
       => /\ out.res.valid_pixels = 0
          /\ out.res.min = None /\ out.res.max = None
          /\ out.res.mean = None /\ out.res.std = None
  /\ (call.op = "band_statistics" /\ call.args[2] # None
        /\ Missing(Declared(call.args[2][1])) = Cells(Declared(call.args[2][1])))
       => /\ out.err = ""
          /\ out.res.statistics[1] = [min |-> None, max |-> None, mean |-> None, std |-> None,
                           count |-> 0]

\* C7: a summary never raises; of a grid whose cells are all missing it has a
\* valid count of 0 and null min, max, mean and std; of any other grid its min,
\* max, mean, std and count are those of the non-missing cells.  For
\* band_statistics, calculate_index_stats and calculate_filter_stats
C7_Summaries ==
  /\ C7_AllMissingSummary
  /\ (call.op \in FilterOps /\ out.err = "" /\ Missing(out.grids[1]) # Cells(out.grids[1]))
       => LET v == Valid(Flatten(out.grids[1]))
          IN /\ out.res.filtered_valid_pixels = Len(v)
             /\ IsLeast(out.res.min, v) /\ IsGreatest(out.res.max, v)
             /\ out.res.mean = Sorted(v) /\ out.res.std = Sorted(v)
  /\ (call.op = "calculate_ndvi" /\ out.err = "" /\ Missing(out.grids[1]) # Cells(out.grids[1]))
       => LET v == Valid(Flatten(out.grids[1]))
          IN /\ out.res.valid_pixels = Len(v)
             /\ IsLeast(out.res.min, v) /\ IsGreatest(out.res.max, v)
             /\ FMul(out.res.mean, Num(Len(v))) = FSum(v)
             /\ out.res.std = Variance(v)
  /\ call.op = "band_statistics"
       => /\ out.err = ""
          /\ \A i \in 1..Len(out.reads) :
               LET v == Valid(Flatten(Declared(out.reads[i])))
               IN v # <<>> =>
                    /\ out.res.statistics[i].count = Len(v)
                    /\ IsLeast(out.res.statistics[i].min, v) /\ IsGreatest(out.res.statistics[i].max, v)
                    /\ FMul(out.res.statistics[i].mean, Num(Len(v))) = FSum(v)
                    /\ out.res.statistics[i].std = Variance(v)

\* band_statistics asked for a band with a non-missing cell
C7_Witness ==
  /\ call.op = "band_statistics"
  /\ call.args[2] # None
  /\ Missing(Declared(call.args[2][1])) # Cells(Declared(call.args[2][1]))
  /\ out.err = NoMaPercentile

\* C8: normalising grid G against sentinel s (handle_nodata, and the
\* replacement the index operations make) gives a grid of the shape of G whose
\* cells equal to s are missing and whose other cells are those of G; without
\* a sentinel, or with one no cell holds, it gives G; and normalising its
\* result again gives that result
C8_Normalisation ==
  call # Idle =>
    LET G == out.norm[1]
        O == out.grids[1]
        s == call.args[1]
        hit(rc) == s # None /\ FEq(G[rc[1]][rc[2]], s)
    IN /\ SameShape(O, G)
       /\ \A rc \in Cells(G) :
            IF hit(rc) THEN IsNaN(O[rc[1]][rc[2]]) ELSE O[rc[1]][rc[2]] = G[rc[1]][rc[2]]
       /\ (\A rc \in Cells(G) : ~hit(rc)) => O = G
       /\ call.op \in {"handle_nodata_again", "normalise_band_again"} => O = G

\* a second normalisation of a grid in which the first one made some cells, not
\* all, missing
C8_Witness ==
  /\ call.op \in {"handle_nodata_again", "normalise_band_again"}
  /\ Missing(out.norm[1]) # {}
  /\ Missing(out.norm[1]) # Cells(out.norm[1])
  /\ out.grids[1] = out.norm[1]

\* the band indices of the request
BandsOf ==
  LET a == call.args
  IN CASE call.op \in {"calculate_ndvi", "calculate_savi", "calculate_ndwi",
                       "calculate_mndwi"} -> <<a[2], a[3]>>
       [] call.op = "calculate_evi" -> <<a[2], a[3], a[4]>>
       [] call.op = "calculate_multiple_indices" -> <<a[2], a[3], a[4], a[5]>>
       [] call.op = "band_statistics" -> a[2]
       [] call.op = "idle" -> <<>>
       [] OTHER -> <<a[2]>>
SomeBandInvalid == \E i \in 1..Len(BandsOf) : BandsOf[i] \notin 1..src.count

InputErrors == {BadBand, BadBands, BadWindow, BadSigma, BadSize, BadMethod}

\* C9: a request with a band index outside 1..count is rejected before any
\* band is read and gives no result: with the ValueError of the band check when
\* the file exists and the scalar parameters are valid, with an input error
\* whenever the file exists
C9_BandRejected ==
  SomeBandInvalid =>
    /\ out.err # ""
    /\ out.reads = <<>>
    /\ out.res = <<>>
    /\ call.args[1] = ThePath => out.err \in InputErrors
    /\ (call.args[1] = ThePath /\ out.err \notin {BadWindow, BadSigma, BadSize, BadMethod})
         => out.err \in {BadBand, BadBands}

\* calculate_multiple_indices with one band index out of range, the other
\* three in range
C9_Witness ==
  /\ call.op = "calculate_multiple_indices"
  /\ Cardinality({i \in 1..4 : BandsOf[i] \notin 1..src.count}) = 1
  /\ out.err = BadBands
  /\ out.reads = <<>>

\* the scalar parameter of the request is invalid
ScalarInvalid ==
  \/ call.op \in FocalOps /\ (call.args[3] <= 0 \/ call.args[3] % 2 = 0)
  \/ call.op = "gaussian_smooth" /\ FLe(call.args[3], Num(0))
  \/ call.op = "median_filter_analysis" /\ call.args[3] <= 0
  \/ call.op = "edge_detection" /\ call.args[3] \notin {"sobel", "gradient"}

\* C10: on an existing file an invalid window_size, sigma, size or method is
\* rejected with its own error before the raster is opened and before any band
\* is read, whatever the band index is
C10_ScalarFirst ==
  (ScalarInvalid /\ call.args[1] = ThePath) =>
    /\ out.err = (CASE call.op \in FocalOps -> BadWindow
                    [] call.op = "gaussian_smooth" -> BadSigma
                    [] call.op = "median_filter_analysis" -> BadSize
                    [] call.op = "edge_detection" -> BadMethod)
    /\ ~out.opened
    /\ out.reads = <<>>
    /\ out.res = <<>>

\* an even window together with a band index out of range
C10_Witness ==
  /\ call.op \in FocalOps
  /\ call.args[1] = ThePath
  /\ call.args[3] = 2
  /\ SomeBandInvalid
  /\ out.err = BadWindow

(* ------------------------------------------------------------------ *)
(* histogram_data and unique_values                                    *)
(* ------------------------------------------------------------------ *)
\* the non-missing values of the band the request names, in row order
BandValues == Valid(Flatten(ReadMasked(call.args[2])))

\* C11 (as stated): histogram_data with bins < 1 is rejected before any band
\* is read, whatever the band holds, and returns no mapping
C11_BinsRejected ==
  (call.op = "histogram_data" /\ call.args[3] < 1)
    => /\ out.err = BadBins
       /\ out.reads = <<>>
       /\ out.res = <<>>

\* C11 (what the code does): with bins < 1 the band is read first; a band with a
\* non-missing cell then makes np.histogram raise, and a band with none gives
\* the "No valid data" mapping
C11_BinsAfterRead ==
  (call.op = "histogram_data" /\ call.args[3] < 1)
    => /\ out.reads = <<call.args[2]>>
       /\ IF BandValues = <<>>
            THEN out.err = "" /\ out.res.error = NoValidData
            ELSE out.err = BadBins /\ out.res = <<>>

\* bins < 1 on a band whose cells are all missing: a mapping came back
C11_Witness ==
  /\ call.op = "histogram_data" /\ call.args[3] < 1
  /\ BandValues = <<>>
  /\ out.err = "" /\ out.reads = <<1>>
  /\ out.res = [error |-> NoValidData, band_number |-> 1]

\* C12 (as stated): unique_values with max_unique <= 0 is rejected with an
\* input error and returns no mapping
C12_MaxUniqueRejected ==
  (call.op = "unique_values" /\ call.args[3] <= 0)
    => /\ out.err \in InputErrors
       /\ out.res = <<>>

\* C12 (what the code does): max_unique <= 0 is never rejected; on a band with a
\* non-missing cell the mapping has truncated = true and the entries the slice
\* [:max_unique] leaves: none for 0, all but the -max_unique rarest below 0
C12_MaxUniqueAccepted ==
  (call.op = "unique_values" /\ call.args[3] <= 0)
    => /\ out.err = ""
       /\ BandValues # <<>>
            => /\ out.res.truncated
               /\ out.res.total_unique_values = Len(UniqueVals(BandValues))
               /\ out.res.returned_values =
                    (IF out.res.total_unique_values + call.args[3] > 0 /\ call.args[3] < 0
                       THEN out.res.total_unique_values + call.args[3] ELSE 0)

\* max_unique = -1 on a band with two distinct values: a mapping with
\* truncated = true and one entry came back
C12_Witness ==
  /\ call.op = "unique_values" /\ call.args[3] = -1
  /\ out.err = "" /\ BandValues # <<>>
  /\ out.res.truncated
  /\ out.res.total_unique_values = 2
  /\ Len(out.res.value_counts) = 1

\* the cells of band b that do not hold its nodata value, the values they hold
\* and the number of them that hold v
Present(b) == {rc \in Cells(src.bands[b]) : ~IsSentinel(b, rc)}
Distinct(b) == {src.bands[b][rc[1]][rc[2]] : rc \in Present(b)}
CountOf(b, v) == Cardinality({rc \in Present(b) : src.bands[b][rc[1]][rc[2]] = v})
\* every entry of value_counts is a value of band b with its number of
\* occurrences, and no value has two entries
ExactEntries(vc, b) ==
  /\ \A i \in 1..Len(vc) :
       \E v \in Distinct(b) : vc[i] = <<Num(v), CountOf(b, v)>>
  /\ \A i, j \in 1..Len(vc) : vc[i][1] = vc[j][1] => i = j
RECURSIVE SumCounts(_)
SumCounts(vc) == IF vc = <<>> THEN 0 ELSE vc[1][2] + SumCounts(Tail(vc))

\* C13: on a band with a non-missing cell and max_unique at least the number of
\* distinct non-missing values, unique_values returns truncated = false,
\* returned_values = total_unique_values = that number, and one entry for each
\* distinct non-missing value with its exact number of occurrences; the counts
\* add up to the number of non-missing cells, so no missing cell is counted
C13_AllValues ==
  (/\ call.op = "unique_values"
   /\ Present(call.args[2]) # {}
   /\ call.args[3] >= Cardinality(Distinct(call.args[2])))
    => /\ out.err = ""
       /\ out.res.truncated = FALSE
       /\ out.res.total_unique_values = Cardinality(Distinct(call.args[2]))
       /\ out.res.returned_values = out.res.total_unique_values
       /\ Len(out.res.value_counts) = out.res.total_unique_values
       /\ ExactEntries(out.res.value_counts, call.args[2])
       /\ SumCounts(out.res.value_counts) = Cardinality(Present(call.args[2]))

\* a band with a missing cell and two distinct values, one of them twice, and
\* max_unique = 2: both values came back with their counts
C13_Witness ==
  /\ call.op = "unique_values" /\ call.args[3] = 2
  /\ Present(1) # Cells(src.bands[1]) /\ Present(1) # {}
  /\ out.err = "" /\ ~out.res.truncated
  /\ out.res.value_counts = <<<<Num(1), 2>>, <<Num(2), 1>>>>

\* C14: when the band has more distinct non-missing values than max_unique > 0,
\* unique_values returns truncated = true and exactly max_unique entries, each
\* a value with its exact number of occurrences; no value left out occurs more
\* often than a value returned; total_unique_values is the number of distinct
\* non-missing values
C14_MostFrequent ==
  (/\ call.op = "unique_values"
   /\ call.args[3] > 0
   /\ Cardinality(Distinct(call.args[2])) > call.args[3])
    => /\ out.err = ""
       /\ out.res.truncated = TRUE
       /\ out.res.total_unique_values = Cardinality(Distinct(call.args[2]))
       /\ out.res.returned_values = call.args[3]
       /\ Len(out.res.value_counts) = call.args[3]
       /\ ExactEntries(out.res.value_counts, call.args[2])
       /\ \A v \in Distinct(call.args[2]) :
            (\A i \in 1..Len(out.res.value_counts) : out.res.value_counts[i][1] # Num(v))
              => \A i \in 1..Len(out.res.value_counts) :
                   CountOf(call.args[2], v) <= out.res.value_counts[i][2]

\* a band with a missing cell, the value 1 once and the value 2 twice, and
\* max_unique = 1: the value 2 alone came back
C14_Witness ==
  /\ call.op = "unique_values" /\ call.args[3] = 1
  /\ Present(1) # Cells(src.bands[1]) /\ Present(1) # {}
  /\ out.err = "" /\ out.res.truncated
  /\ out.res.total_unique_values = 2
  /\ out.res.value_counts = <<<<Num(2), 2>>>>

(* ------------------------------------------------------------------ *)
(* bounds_wgs84                                                        *)
(* ------------------------------------------------------------------ *)
\* the file has a coordinate system that transform_bounds cannot take to WGS84
ReprojectionFails == src.crs = <<"LOCAL_CS">>
\* the bounds of the file in WGS84 degrees
Wgs84Bounds ==
  IF src.crs = <<"EPSG:4326">> THEN src.bounds
  ELSE <<Num(0), Num(0), Num(2), Num(1)>>
\* the statistics fields of the mapping a tool returns
ResultFields ==
  CASE call.op \in FilterOps ->
         {"original_valid_pixels", "filtered_valid_pixels", "min", "max", "mean", "std"}
    [] call.op = "calculate_multiple_indices" -> {"ndvi", "ndwi", "evi"}
    [] call.op \in IndexOps ->
         {"valid_pixels", "total_pixels", "min", "max", "mean", "std", "percentiles"}
    [] call.op = "band_statistics" -> {"statistics"}
    [] OTHER -> {}

\* C15: no request fails because of the bounds: a request that returns reports
\* the WGS84 bounds when the file has a coordinate system that reprojects, and
\* the native bounds when it has none or the reprojection raises; the only
\* requests that raise are the ones that raise whatever the coordinate system
\* (np.gradient on a single pixel, np.ma.percentile), and every other request
\* returns its whole mapping
C15_BoundsNeverFail ==
  call.op # "idle" =>
    /\ out.err # CannotTransform
    /\ out.err = "" =>
         /\ DOMAIN out.res = ResultFields \cup {"bounds_wgs84"}
         /\ out.res.bounds_wgs84 =
              (IF src.crs = None \/ ReprojectionFails THEN src.bounds ELSE Wgs84Bounds)
    /\ out.err # "" =>
         \/ /\ call.op = "edge_detection" /\ call.args[3] = "gradient"
            /\ out.err = GradientTooSmall
         \/ /\ call.op = "band_statistics"
            /\ out.err = NoMaPercentile

\* the reprojection raised during calculate_ndvi and the request returned its
\* statistics with the native bounds
C15_Witness ==
  /\ call.op = "calculate_ndvi" /\ ReprojectionFails
  /\ out.err = ""
  /\ out.res.valid_pixels = 1
  /\ out.res.bounds_wgs84 = <<Num(0), Num(0), Num(100), Num(50)>>

\* C16 (as stated): when the reprojection fails, the mapping returned holds a
\* warning field besides the native bounds
C16_WarningField ==
  (call.op # "idle" /\ ReprojectionFails /\ out.err = "")
    => /\ out.res.bounds_wgs84 = src.bounds
       /\ "warning" \in DOMAIN out.res

\* C16 (what the code does): when the reprojection fails, the mapping returned
\* holds the native bounds and the fields it holds for any other file; the
\* warning is a line on sys.stderr
C16_WarningOnStderr ==
  (call.op # "idle" /\ ReprojectionFails /\ out.err = "")
    => /\ out.res.bounds_wgs84 = src.bounds
       /\ DOMAIN out.res = ResultFields \cup {"bounds_wgs84"}
       /\ out.stderr = <<<<"Warning: Could not transform bounds to WGS84: ", CannotTransform>>>>

\* the reprojection raised during focal_mean: the mapping returned has the
\* native bounds and no warning field
C16_Witness ==
  /\ call.op = "focal_mean" /\ ReprojectionFails
  /\ out.err = ""
  /\ out.res.bounds_wgs84 = src.bounds
  /\ "warning" \notin DOMAIN out.res
  /\ out.stderr # <<>>

(* ------------------------------------------------------------------ *)
(* edge_detection                                                      *)
(* ------------------------------------------------------------------ *)
\* the grid g with every missing cell replaced by the mean of the others
Substituted(g) ==
  Tab(Rows(g), LAMBDA r : Tab(Cols(g), LAMBDA c :
     IF IsNaN(g[r][c])
       THEN FDiv(FSum(Valid(Flatten(g))), Num(Len(Valid(Flatten(g)))))
       ELSE g[r][c]))

\* the horizontal and the vertical Sobel response of grid t at rc: the cells of
\* the mirrored 3 x 3 window weighted by their column (row) offset, doubled on
\* the middle row (column)
SobelAt(t, rc, horizontal) ==
  FSum(Tab(9, LAMBDA i :
     LET dr == ((i - 1) \div 3) - 1
         dc == ((i - 1) % 3) - 1
     IN FMul(Num(IF horizontal THEN dc * (2 - Abs(dr)) ELSE dr * (2 - Abs(dc))),
             MirrorWindow(t, rc, 3)[i])))

\* the difference quotient of the line at i: one-sided at the two ends, central
\* inside
SlopeAt(line, i) ==
  IF i = 1 THEN FSub(line[2], line[1])
  ELSE IF i = Len(line) THEN FSub(line[Len(line)], line[Len(line) - 1])
  ELSE FDiv(FSub(line[i + 1], line[i - 1]), Num(2))

\* gx^2 + gy^2 of grid t at rc for the method
SquaredMagnitude(t, rc, method) ==
  IF method = "sobel"
    THEN FAdd(FMul(SobelAt(t, rc, TRUE), SobelAt(t, rc, TRUE)),
              FMul(SobelAt(t, rc, FALSE), SobelAt(t, rc, FALSE)))
    ELSE LET gx == SlopeAt(t[rc[1]], rc[2])
             gy == SlopeAt(Tab(Rows(t), LAMBDA r : t[r][rc[2]]), rc[1])
         IN FAdd(FMul(gx, gx), FMul(gy, gy))

\* what C17 says of a request that returned: the output has the shape and the
\* missing cells of the band; when every cell is missing the statistics are
\* null; otherwise every non-missing output is >= 0 and is gx^2 + gy^2 (the
\* square of the magnitude) of the band with its missing cells replaced by the
\* mean
EdgeOutput ==
  LET G == Declared(call.args[2])
      E == out.grids[1]
  IN /\ SameShape(E, G)
     /\ Missing(E) = Missing(G)
     /\ Missing(G) = Cells(G)
          => /\ out.res.filtered_valid_pixels = 0
             /\ out.res.min = None /\ out.res.max = None
             /\ out.res.mean = None /\ out.res.std = None
     /\ \A rc \in Cells(G) \ Missing(G) :
          /\ FLe(Num(0), E[rc[1]][rc[2]])
          /\ E[rc[1]][rc[2]] = SquaredMagnitude(Substituted(G), rc, call.args[3])

\* C17 (as stated): for every grid and both methods edge_detection returns a
\* gradient-magnitude grid that is missing exactly where the band is missing,
\* computed from the band with its missing cells replaced by the mean, every
\* non-missing output >= 0 and equal to sqrt(gx^2 + gy^2); an all-missing band
\* gives an all-missing output with null statistics
C17_EdgeOutput ==
  call.op = "edge_detection" => (out.err = "" /\ EdgeOutput)

\* C17 (what the code does): the same, except that the gradient method raises
\* on a band of a single row or a single column that has a non-missing cell
C17_EdgeOutputOrRaise ==
  call.op = "edge_detection" =>
    IF /\ call.args[3] = "gradient"
       /\ Present(call.args[2]) # {}
       /\ (Rows(src.bands[call.args[2]]) < 2 \/ Cols(src.bands[call.args[2]]) < 2)
      THEN out.err = GradientTooSmall /\ out.res = <<>>
      ELSE out.err = "" /\ EdgeOutput

\* the gradient method on a single row with a missing and a non-missing cell:
\* the request raised
C17_Witness ==
  /\ call.op = "edge_detection" /\ call.args[3] = "gradient"
  /\ Rows(src.bands[1]) = 1 /\ Cols(src.bands[1]) = 2
  /\ Present(1) = {<<1, 2>>}
  /\ out.err = GradientTooSmall

\* the band has no missing cell and every cell holds the same value
Constant(b) == Present(b) = Cells(src.bands[b]) /\ Cardinality(Distinct(b)) = 1

\* C18 (as stated): the gradient method on a constant band with no missing
\* cell, of any shape, does not raise and returns 0 at every cell
C18_ConstantGradient ==
  (call.op = "edge_detection" /\ call.args[3] = "gradient" /\ Constant(call.args[2]))
    => /\ out.err = ""
       /\ \A rc \in Cells(src.bands[call.args[2]]) : out.grids[1][rc[1]][rc[2]] = Num(0)

\* C18 (what the code does): the gradient method returns 0 at every cell of a
\* constant band with at least two rows and two columns, and raises on one with
\* a single row or a single column
C18_ConstantGradientOrRaise ==
  (call.op = "edge_detection" /\ call.args[3] = "gradient" /\ Constant(call.args[2]))
    => IF Rows(src.bands[call.args[2]]) >= 2 /\ Cols(src.bands[call.args[2]]) >= 2
         THEN /\ out.err = ""
              /\ \A rc \in Cells(src.bands[call.args[2]]) :
                   out.grids[1][rc[1]][rc[2]] = Num(0)
         ELSE out.err = GradientTooSmall /\ out.grids = <<>>

\* the gradient method on a single row of two equal cells: the request raised
C18_Witness ==
  /\ call.op = "edge_detection" /\ call.args[3] = "gradient"
  /\ src.bands[1] = <<<<2, 2>>>>
  /\ out.err = GradientTooSmall

(* ------------------------------------------------------------------ *)
(* the scenario [[1, 2], [3, NoData]]                                  *)
(* ------------------------------------------------------------------ *)
\* focal_mean with window 3 was asked for a band whose last cell alone is
\* missing
CornerScenario ==
  /\ call.op = "focal_mean" /\ call.args[3] = 3
  /\ Present(1) = Cells(src.bands[1]) \ {<<2, 2>>}

\* C19 (as stated): for [[1, 2], [3, NoData]] and window 3 the focal mean at
\* the first cell is non-missing and is the average of 1, 2 and 3
C19_PlainAverage ==
  (CornerScenario /\ src.bands[1] = <<<<1, 2>>, <<3, -9999>>>>)
    => /\ out.err = ""
       /\ ~IsNaN(out.grids[1][1][1])
       /\ out.grids[1][1][1] = Num(2)

\* C19 (amended): for [[a, b], [c, NoData]] and window 3 the focal mean at the
\* first cell is non-missing and is (4a + 2b + 2c) / 8: the mirrored window
\* holds the cell itself four times, each of its two neighbours twice and the
\* missing cell once; for [[1, 2], [3, NoData]] that is 1.75
C19_MirroredAverage ==
  CornerScenario
    => /\ out.err = ""
       /\ ~IsNaN(out.grids[1][1][1])
       /\ out.grids[1][1][1] =
            Rat(4 * src.bands[1][1][1] + 2 * src.bands[1][1][2] + 2 * src.bands[1][2][1], 8)

\* the scenario itself: the focal mean at the first cell is 7/4
C19_Witness ==
  /\ CornerScenario
  /\ src.bands[1] = <<<<1, 2>>, <<3, -9999>>>>
  /\ out.grids[1][1][1] = Rat(7, 4)

(* ------------------------------------------------------------------ *)
(* calculate_multiple_indices                                          *)
(* ------------------------------------------------------------------ *)
\* cell rc of index k (1 NDVI, 2 NDWI, 3 EVI) has a reason of its own to be
\* missing: one of the bands the index reads holds its nodata value there, or
\* the denominator of the index is 0 there
OwnReason(k, rc) ==
  \/ \E b \in Required(k) : IsSentinel(b, rc)
  \/ Parts(k, rc)[2] = Num(0)

\* C20: in calculate_multiple_indices a cell of NDVI, NDWI or EVI is missing
\* exactly when one of that index's own bands is missing there or its own
\* denominator is 0 there, whatever the other two indices hold at the cell
C20_IndependentMasks ==
  call.op = "calculate_multiple_indices" =>
    /\ out.err = ""
    /\ Len(out.grids) = 3
    /\ \A k \in 1..3 : \A rc \in Cells(out.grids[k]) :
         IsNaN(out.grids[k][rc[1]][rc[2]]) <=> OwnReason(k, rc)

\* a request where NDWI is missing at a cell for a missing GREEN value while
\* NDVI holds a value there, and NDVI is missing at a cell for NIR + RED = 0
\* while NDWI and EVI hold values there
C20_Witness ==
  /\ call.op = "calculate_multiple_indices"
  /\ \E rc \in Cells(out.grids[1]) :
       /\ IsSentinel(call.args[4], rc)
       /\ IsNaN(out.grids[2][rc[1]][rc[2]])
       /\ ~IsNaN(out.grids[1][rc[1]][rc[2]])
  /\ \E rc \in Cells(out.grids[1]) :
       /\ Parts(1, rc)[2] = Num(0)
       /\ IsNaN(out.grids[1][rc[1]][rc[2]])
       /\ ~IsNaN(out.grids[2][rc[1]][rc[2]])
       /\ ~IsNaN(out.grids[3][rc[1]][rc[2]])

InBin(b, e, i) ==
  {rc \in Present(b) :
     LET v == Num(src.bands[b][rc[1]][rc[2]])
     IN /\ FLe(e[i], v)
        /\ FLt(v, e[i + 1]) \/ (i = Len(e) - 1 /\ v = e[i + 1])}
\* the counts and edges of a histogram of band b whose edges run from lo to hi
Histogram(b, lo, hi) ==
  LET h == out.res.histogram
      e == out.res.bin_edges
      bins == call.args[3]
  IN /\ out.err = ""
     /\ Len(h) = bins /\ Len(e) = bins + 1
     /\ \A i \in 1..bins : FLe(e[i], e[i + 1])
     /\ e[1] = lo /\ e[bins + 1] = hi
     /\ \A rc \in Present(b) : Cardinality({i \in 1..bins : rc \in InBin(b, e, i)}) = 1
     /\ \A i \in 1..bins : h[i] = Cardinality(InBin(b, e, i))
     /\ out.res.total_pixels = Cardinality(Present(b))
     /\ SumCounts([i \in 1..Len(h) |-> <<i, h[i]>>]) = out.res.total_pixels

\* C23 (as stated): on a band with a non-missing cell and bins >= 1 the edges
\* run from the least to the greatest non-missing value, every non-missing
\* cell is in exactly one bin and the counts add up to total_pixels, the number
\* of non-missing cells
C23_MinToMax ==
  (call.op = "histogram_data" /\ call.args[3] >= 1 /\ Present(call.args[2]) # {})
    => LET b == call.args[2]
           vs == {Num(v) : v \in Distinct(b)}
       IN Histogram(b, CHOOSE v \in vs : \A w \in vs : FLe(v, w),
                       CHOOSE v \in vs : \A w \in vs : FLe(w, v))

\* C23 (what the code does): the same, the edges running from the least to the
\* greatest non-missing value when these differ and from half a unit below to
\* half a unit above the value when all non-missing cells hold the same one
C23_Histogram ==
  (call.op = "histogram_data" /\ call.args[3] >= 1 /\ Present(call.args[2]) # {})
    => LET b == call.args[2]
           vs == {Num(v) : v \in Distinct(b)}
           lo == CHOOSE v \in vs : \A w \in vs : FLe(v, w)
           hi == CHOOSE v \in vs : \A w \in vs : FLe(w, v)
       IN IF lo = hi
            THEN Histogram(b, FSub(lo, Rat(1, 2)), FAdd(hi, Rat(1, 2)))
            ELSE Histogram(b, lo, hi)

\* two bins over a band with a missing cell, a cell at the least and a cell at
\* the greatest value: the greatest is counted in the last bin
C23_Witness ==
  /\ call.op = "histogram_data" /\ call.args[3] = 2
  /\ Cardinality(Distinct(1)) = 2
  /\ Present(1) # Cells(src.bands[1])
  /\ out.err = ""
  /\ out.res.histogram[1] >= 1 /\ out.res.histogram[2] >= 1
  /\ out.res.total_pixels = Cardinality(Present(1))

(* ------------------------------------------------------------------ *)
(* a band with no valid cell                                           *)
(* ------------------------------------------------------------------ *)
\* the request has an existing file, band indices in range and valid scalar
\* parameters, and every band it works on holds its nodata value in every cell
OnAllMissing ==
  /\ call.op # "idle"
  /\ call.args[1] = ThePath
  /\ ~SomeBandInvalid /\ ~ScalarInvalid
  /\ call.op \in {"histogram_data", "unique_values"} => call.args[3] >= 1
  /\ \A b \in (IF call.op = "band_statistics" /\ call.args[2] = None
                 THEN 1..src.count
                 ELSE {BandsOf[i] : i \in 1..Len(BandsOf)}) : Present(b) = {}

\* C24: a valid request on bands whose cells are all missing does not raise and
\* returns a mapping: the focal, smoothing and edge grids are missing in every
\* cell and their statistics are null with no valid cell, the index statistics
\* are null with valid_pixels 0, band_statistics reports count 0 and null
\* statistics, histogram_data and unique_values return the note
\* "No valid data in band"
C24_AllMissingDegrades ==
  OnAllMissing =>
    /\ out.err = ""
    /\ out.res # <<>>
    /\ call.op \in FilterOps =>
         /\ Missing(out.grids[1]) = Cells(out.grids[1])
         /\ out.res.original_valid_pixels = 0 /\ out.res.filtered_valid_pixels = 0
         /\ out.res.min = None /\ out.res.max = None
         /\ out.res.mean = None /\ out.res.std = None
    /\ (call.op \in IndexOps /\ call.op # "calculate_multiple_indices") =>
         /\ out.res.valid_pixels = 0
         /\ out.res.min = None /\ out.res.max = None
         /\ out.res.mean = None /\ out.res.std = None
    /\ call.op = "calculate_multiple_indices" =>
         \A k \in {"ndvi", "ndwi", "evi"} :
           out.res[k].valid_pixels = 0 /\ out.res[k].min = None
    /\ call.op = "band_statistics" =>
         \A i \in 1..Len(out.res.statistics) :
           out.res.statistics[i] =
             [min |-> None, max |-> None, mean |-> None, std |-> None, count |-> 0]
    /\ call.op \in {"histogram_data", "unique_values"} =>
         out.res = [error |-> NoValidData, band_number |-> call.args[2]]

\* the gradient of a band with no valid cell: the filter is skipped, so the
\* single pixel that np.gradient would reject gives an all-missing grid
C24_Witness ==
  /\ OnAllMissing
  /\ call.op = "edge_detection" /\ call.args[3] = "gradient"
  /\ out.err = ""
  /\ Missing(out.grids[1]) = Cells(out.grids[1])
  /\ out.res.filtered_valid_pixels = 0

(* ------------------------------------------------------------------ *)
(* the connection dictionary                                           *)
(* ------------------------------------------------------------------ *)
\* C25 (as stated): list_connections returns the ids of the connections that
\* are open: every listed id maps to an open connection and count is the
\* number of listed ids, failed connect_database calls included
C25_ListedAreOpen ==
  call.op = "list_connections" =>
    /\ \A id \in out.res.active_connections :
         connections[id] # <<>> /\ ~connections[id][1].closed
    /\ out.res.count = Cardinality(out.res.active_connections)

\* C25 (what the code does): list_connections returns the keys of the
\* dictionary and their number; a key maps to a closed connection exactly when
\* the last connect_database for it closed the connection it had and then
\* failed to open the new one
C25_ListedAreKeys ==
  /\ call.op = "list_connections" =>
       /\ out.res.active_connections = {id \in ConnectionIds : connections[id] # <<>>}
       /\ out.res.count = Cardinality(out.res.active_connections)
  /\ (call.op = "connect_database" /\ out.err = "") =>
       ~connections[call.args[1]][1].closed
  /\ (call.op = "connect_database" /\ out.err # "") =>
       (connections[call.args[1]] = <<>> \/ connections[call.args[1]][1].closed)
  /\ call.op = "close_connection" => connections[call.args[1]] = <<>>

\* list_connections names an id whose connection is closed
C25_Witness ==
  /\ call.op = "list_connections"
  /\ \E id \in out.res.active_connections : connections[id][1].closed

(* ------------------------------------------------------------------ *)
(* the read-only query tools                                           *)
(* ------------------------------------------------------------------ *)
QueryOps == {"execute_select_query", "execute_spatial_query"}

\* every statement of the query is a SELECT: it begins with SELECT, or with
\* WITH, and holds no data-changing word
OnlySelects(query) ==
  /\ query # <<>>
  /\ \A i \in 1..Len(query) :
       /\ FirstToken(query[i]) # None
       /\ Upper(FirstToken(query[i])[1].value) \in {"SELECT", "WITH"}
       /\ Changes(<<query[i]>>) = {}

\* C26 (as stated): execute_select_query and execute_spatial_query send a
\* query to the database only if every statement in it is a SELECT, reject any
\* other query with "Only SELECT queries are allowed for safety" before
\* anything is executed, and never commit, so that the database holds no change
C26_ReadOnly ==
  /\ call.op \in QueryOps =>
       /\ ~OnlySelects(call.args[2]) => (out.err = OnlySelect /\ out.sent = <<>>)
       /\ ~out.committed
  /\ db = {}

\* C26 (what the code does): a query is rejected when it is empty or one of
\* its statements begins, comments aside, with one of the nine words of
\* dangerous_keywords, and nothing is sent then; every other query is sent, on
\* an open connection, and is committed when the database accepts it and its
\* text does not begin with SELECT or WITH
C26_Blacklist ==
  call.op \in QueryOps =>
    LET query == call.args[2]
        listed == \/ query = <<>>
                  \/ \E i \in 1..Len(query) :
                       /\ FirstToken(query[i]) # None
                       /\ Upper(FirstToken(query[i])[1].value) \in dangerous_keywords
    IN /\ listed => (out.err = OnlySelect /\ out.sent = <<>> /\ ~out.committed)
       /\ ~listed =>
            /\ out.err # OnlySelect
            /\ out.err \in {"", DatabaseError} => Len(out.sent) = 1
            /\ out.committed <=> (out.err = "" /\ ~StartsWithSelect(out.sent[1]))

\* a CALL statement went through execute_spatial_query: it was sent as it
\* stood, committed, and the database holds its change
C26_Witness ==
  /\ call.op = "execute_spatial_query"
  /\ call.args[2] # <<>>
  /\ FirstToken(call.args[2][1]) # None
  /\ FirstToken(call.args[2][1])[1].value = "CALL"
  /\ out.err = "" /\ out.sent = <<call.args[2]>> /\ out.committed
  /\ call.args[2] \in db

(* ------------------------------------------------------------------ *)
(* the window of a single cell                                         *)
(* ------------------------------------------------------------------ *)
\* C27: with window_size 1 focal_mean, focal_min and focal_max return the
\* normalised band cell for cell, missing cells missing and valid cells with
\* their value, and focal_std returns 0 at every valid cell and missing at
\* every missing one
C27_SingleCellWindow ==
  (call.op \in FocalOps /\ call.args[3] = 1) =>
    LET G == Declared(call.args[2])
        O == out.grids[1]
    IN /\ out.err = ""
       /\ out.norm[1] = G
       /\ SameShape(O, G)
       /\ call.op # "focal_std" => O = G
       /\ call.op = "focal_std" =>
            \A rc \in Cells(G) :
              O[rc[1]][rc[2]] = (IF IsNaN(G[rc[1]][rc[2]]) THEN NaN ELSE Num(0))

\* window 1 on a band with a missing cell and two different values
C27_Witness ==
  /\ call.op \in FocalOps /\ call.args[3] = 1
  /\ Missing(out.norm[1]) # {}
  /\ Cardinality(Distinct(1)) = 2
  /\ out.err = ""
  /\ Missing(out.grids[1]) = Missing(out.norm[1])

(* ------------------------------------------------------------------ *)
(* the range of EVI                                                    *)
(* ------------------------------------------------------------------ *)
\* calculate_evi with the default G, C1, C2, L returned, on bands without a
\* negative value
DefaultEvi ==
  /\ call.op = "calculate_evi"
  /\ <<call.args[5], call.args[6], call.args[7], call.args[8]>> = EviDefaults
  /\ out.err = ""
  /\ \A i \in 2..4 : \A rc \in Cells(src.bands[call.args[i]]) :
       src.bands[call.args[i]][rc[1]][rc[2]] >= 0

\* C28 (as stated): every non-missing EVI cell computed with the defaults
\* from non-negative RED, NIR and BLUE values lies in [-1, 1], and so do the
\* reported min and max
C28_EviInRange ==
  DefaultEvi =>
    /\ \A rc \in Cells(out.grids[1]) :
         LET x == out.grids[1][rc[1]][rc[2]]
         IN ~IsNaN(x) => (FLe(Num(-1), x) /\ FLe(x, Num(1)))
    /\ out.res.valid_pixels > 0 =>
         (FLe(Num(-1), out.res.min) /\ FLe(out.res.max, Num(1)))

\* C28 (what the code does): a non-missing EVI cell is
\* 2.5 * (nir - red) / (nir + 6 * red - 7.5 * blue + 1) with nothing clipped,
\* a cell is missing where a band is missing or that denominator is 0, and min
\* and max are the least and the greatest cell
C28_EviUnclipped ==
  DefaultEvi =>
    /\ \A rc \in Cells(out.grids[1]) :
         LET x == out.grids[1][rc[1]][rc[2]]
             red == Declared(call.args[2])[rc[1]][rc[2]]
             nir == Declared(call.args[3])[rc[1]][rc[2]]
             blue == Declared(call.args[4])[rc[1]][rc[2]]
             d == FAdd(FSub(FAdd(nir, FMul(Num(6), red)), FMul(Rat(15, 2), blue)), Num(1))
         IN IF IsNaN(red) \/ IsNaN(nir) \/ IsNaN(blue) \/ d = Num(0)
              THEN IsNaN(x)
              ELSE FMul(x, d) = FMul(Rat(5, 2), FSub(nir, red))
    /\ out.res.valid_pixels > 0 =>
         /\ \E rc \in Cells(out.grids[1]) : out.grids[1][rc[1]][rc[2]] = out.res.min
         /\ \E rc \in Cells(out.grids[1]) : out.grids[1][rc[1]][rc[2]] = out.res.max
         /\ \A rc \in Cells(out.grids[1]) :
              ~IsNaN(out.grids[1][rc[1]][rc[2]]) =>
                /\ FLe(out.res.min, out.grids[1][rc[1]][rc[2]])
                /\ FLe(out.grids[1][rc[1]][rc[2]], out.res.max)

\* RED = 0, NIR = 1, BLUE = 0 in a cell: EVI is 2.5 * 1 / 2 = 1.25 there, and the
\* reported max is above 1
C28_Witness ==
  /\ DefaultEvi
  /\ \E rc \in Cells(out.grids[1]) :
       /\ Declared(call.args[2])[rc[1]][rc[2]] = Num(0)
       /\ Declared(call.args[3])[rc[1]][rc[2]] = Num(1)
       /\ Declared(call.args[4])[rc[1]][rc[2]] = Num(0)
       /\ out.grids[1][rc[1]][rc[2]] = Rat(5, 4)
  /\ FLt(Num(1), out.res.max)

(* ------------------------------------------------------------------ *)
(* the combined tool against the single ones                           *)
(* ------------------------------------------------------------------ *)
StatFields == {"min", "max", "mean", "std", "valid_pixels", "total_pixels", "percentiles"}

\* C29: on the same file and the same bands, the ndvi, ndwi and evi statistics
\* of calculate_multiple_indices are field for field those of calculate_ndvi,
\* calculate_ndwi and calculate_evi with the default G, C1, C2 and L, whatever
\* the band values, the nodata values and the denominators
C29_CombinedEqualsSingle ==
  (call.op = "calculate_multiple_indices" /\ out.err = "") =>
    LET path == call.args[1]
        red == call.args[2]
        nir == call.args[3]
        green == call.args[4]
        blue == call.args[5]
        ndvi == calculate_ndvi(path, red, nir)
        ndwi == calculate_ndwi(path, green, nir)
        evi == calculate_evi(path, red, nir, blue, EviDefaults[1], EviDefaults[2],
                             EviDefaults[3], EviDefaults[4])
    IN /\ ndvi.err = "" /\ ndwi.err = "" /\ evi.err = ""
       /\ DOMAIN out.res.ndvi = StatFields
       /\ \A k \in StatFields :
            /\ out.res.ndvi[k] = ndvi.res[k]
            /\ out.res.ndwi[k] = ndwi.res[k]
            /\ out.res.evi[k] = evi.res[k]
       /\ out.grids = <<ndvi.grids[1], ndwi.grids[1], evi.grids[1]>>

\* the combined tool on two different bands where one cell is missing through
\* a nodata value, NDVI has a zero denominator in a cell and EVI has a value
C29_Witness ==
  /\ call.op = "calculate_multiple_indices" /\ out.err = ""
  /\ call.args[2] # call.args[3]
  /\ \E rc \in Cells(out.grids[1]) : \E i \in 2..5 : IsSentinel(call.args[i], rc)
  /\ \E rc \in Cells(out.grids[1]) :
       /\ IsNaN(out.grids[1][rc[1]][rc[2]])
       /\ \A i \in 2..5 : ~IsSentinel(call.args[i], rc)
  /\ out.res.evi.valid_pixels > 0
  /\ out.res.evi = [k \in StatFields |->
                      calculate_evi(call.args[1], call.args[2], call.args[3], call.args[5],
                                    Rat(5, 2), Num(6), Rat(15, 2), Num(1)).res[k]]

(* ------------------------------------------------------------------ *)
(* the order of the focal statistics                                   *)
(* ------------------------------------------------------------------ *)
\* x lies between the least and the greatest non-missing value of band b
WithinBand(b, x) ==
  /\ \E v \in Distinct(b) : FLe(Num(v), x)
  /\ \E v \in Distinct(b) : FLe(x, Num(v))

====
